---- MODULE Spec2Model ----
(***************************************************************************)
(* Broker-mediated event gateway of smart_camera_backend:                  *)
(*   - the telemetry dispatchers (app/workers/rabbitmq_consumer.py and     *)
(*     RabbitMQManager.consume_queue of app/core/rabbitmq.py),             *)
(*   - the connection manager and publisher (app/core/rabbitmq.py),        *)
(*   - the camera lifecycle publisher and the camera API that schedules it *)
(*     (app/services/rabbitmq_service.py, app/api/v1/cameras.py).          *)
(* Each part has its own specification over the shared variables.          *)
(***************************************************************************)
EXTENDS Integers, Sequences, FiniteSets, TLC

(* ------------------------------ bounds -------------------------------- *)
\* Telemetry messages published in one behaviour.
MaxMsgs == 2
\* Deliveries of one message the model follows (the code never redelivers).
MaxDeliveries == 2

\* Broker connections the model tells apart.
MaxConns == 3
\* Cameras created in one behaviour.
MaxCameras == 2
\* Lifecycle events one bound queue receives in one behaviour.
MaxPublished == 2
\* Frames a producer enqueues for one camera in one behaviour.
MaxFrames == 7
\* Frame messages that reach the queue one stream_generator call reads.
MaxStreamMsgs == 3
MaxDeclares == 2
MaxEnsureCalls == 2
MaxRouted == 2
MaxCallers == 2
MaxRestarts == 2

VARIABLES
    msgs,       \* telemetry messages in publish order, with their history
    ready,      \* per queue: the indices of the messages waiting, FIFO
    mgr,        \* the fields of the global RabbitMQManager (app/core/rabbitmq.py)
    broker,     \* the broker: reachable or not, and the connections clients hold open
    last,       \* what the last completed manager or publisher call did
    cameras,    \* camera rows in the relational store
    nextId,     \* next primary key the store hands out
    tasks,      \* background tasks scheduled by the camera API, not yet run
    taskLog,    \* background tasks that ran, with their outcome
    events,     \* camera lifecycle messages handed to an exchange
    conns,      \* connections of the owners other than the global manager
    exch,       \* the lifecycle exchange: its bindings and the bound queues
    gw          \* the per-camera frame queues of the streaming gateway

dvars == <<msgs, ready>>
mvars == <<mgr, broker, last>>
avars == <<cameras, nextId, tasks, taskLog, events>>
xvars == <<conns, exch, gw>>
vars == <<msgs, ready, mgr, broker, last, cameras, nextId, tasks, taskLog, events,
          conns, exch, gw>>

(* --------------------------- telemetry queues -------------------------- *)
\* Queues of RabbitMQConsumer.setup_queues.
WorkerQueues == {"detection_queue", "tracking_queue", "face_recognition_queue"}
\* Queues of ROS2MessageConsumer._setup_queues (settings.rabbitmq_queue_*).
CoreQueues == {"ros2_detections", "ros2_tracking", "ros2_faces"}
Queues == WorkerQueues \cup CoreQueues

\* channel.set_qos(prefetch_count=...) of the channel that consumes queue q.
WorkerPrefetch == 1
CorePrefetch == 10
\* prefetch_count of a channel on which set_qos was never called: no limit.
NoPrefetchLimit == 0

\* Mutant: the worker sets the prefetch after it has attached its consumers.
WorkerChannelOps_QosLast ==
    <<"channel", "declare_exchange",
      "declare_queue", "declare_queue", "declare_queue",
      "bind", "bind", "bind", "consume", "consume", "consume", "set_qos">>

\* The channel operations of the worker, in the order run_consumer runs
\* them: RabbitMQConsumer.connect, then setup_queues and the three consume
\* calls of start_consuming.
WorkerChannelOps ==
    <<"channel", "set_qos", "declare_exchange",
      "declare_queue", "declare_queue", "declare_queue",
      "bind", "bind", "bind", "consume", "consume", "consume">>

\* The channel operations of the core manager: RabbitMQManager.connect,
\* then ROS2MessageConsumer._setup_queues and _start_queue_consumers
\* (consume_queue refuses before connect has succeeded).
CoreChannelOps ==
    <<"channel", "set_qos", "declare_exchange",
      "declare_queue", "bind", "declare_queue", "bind",
      "declare_queue", "bind", "consume", "consume", "consume">>

\* set_qos comes before every consume.
QosBeforeConsume(ops) ==
    \A j \in 1..Len(ops) :
        ops[j] = "consume" => \E i \in 1..(j - 1) : ops[i] = "set_qos"

\* The limit the broker applies to a consumer: the prefetch count in force
\* on its channel when the consumer was attached (set_qos without global
\* applies to each consumer attached afterwards).
ConsumerPrefetch(ops, count) ==
    IF QosBeforeConsume(ops) THEN count ELSE NoPrefetchLimit

Prefetch(q) ==
    IF q \in WorkerQueues
    THEN ConsumerPrefetch(WorkerChannelOps, WorkerPrefetch)
    ELSE ConsumerPrefetch(CoreChannelOps, CorePrefetch)

\* Bodies a producer can put on a telemetry queue:
\*   bad_utf8          bytes that are not UTF-8
\*   bad_json          UTF-8 text that is not JSON
\*   no_camera         a JSON object without camera_id, timestamp absent or ISO
\*   no_camera_bad_ts  a JSON object without camera_id, timestamp not ISO
\*   ok                a JSON object with camera_id and a usable timestamp
Bodies == {"bad_utf8", "bad_json", "no_camera", "no_camera_bad_ts", "ok"}

\* json.loads(message.body.decode()): bytes.decode raises UnicodeDecodeError,
\* json.loads raises JSONDecodeError, otherwise the parsed object.
JsonLoads(body) ==
    CASE body = "bad_utf8" -> "UnicodeDecodeError"
      [] body = "bad_json" -> "JSONDecodeError"
      [] OTHER             -> "parsed"

\* Mutant: the camera_id check is skipped.
HasCameraId_Skipped(body) == JsonLoads(body) = "parsed"

\* body.get('camera_id') is truthy.
HasCameraId(body) == body = "ok"

\* datetime.fromisoformat(body.get('timestamp', now)) raises ValueError.
TimestampRaises(body) == body = "no_camera_bad_ts"

(* The three processors of RabbitMQConsumer.  Each returns what happened    *)
(* inside `async with message.process()`: whether the block was left by an  *)
(* exception (raised), whether the persistence collaborator was invoked     *)
(* (called) and whether that invocation raised (failed).  hr: the           *)
(* collaborator raises when invoked.                                        *)
process_detection_message(body, hr) ==
    IF JsonLoads(body) # "parsed"
    THEN \* except json.JSONDecodeError / except Exception: logged, swallowed
         [raised |-> FALSE, called |-> FALSE, failed |-> FALSE]
    ELSE IF TimestampRaises(body)
    THEN \* ValueError before the camera_id check: except Exception, swallowed
         [raised |-> FALSE, called |-> FALSE, failed |-> FALSE]
    ELSE IF ~HasCameraId(body)
    THEN \* "Missing camera_id ...": return
         [raised |-> FALSE, called |-> FALSE, failed |-> FALSE]
    ELSE \* get_db_session and DetectionService.create_detection run; an exception is caught by except Exception
         [raised |-> FALSE, called |-> TRUE, failed |-> hr]

process_tracking_message(body, hr) ==
    IF JsonLoads(body) # "parsed"
    THEN \* except json.JSONDecodeError / except Exception: logged, swallowed
         [raised |-> FALSE, called |-> FALSE, failed |-> FALSE]
    ELSE IF TimestampRaises(body)
    THEN \* ValueError before the camera_id check: except Exception, swallowed
         [raised |-> FALSE, called |-> FALSE, failed |-> FALSE]
    ELSE IF ~HasCameraId(body)
    THEN \* "Missing camera_id ...": return
         [raised |-> FALSE, called |-> FALSE, failed |-> FALSE]
    ELSE \* get_db_session and the per-track handling run; an exception is caught by except Exception
         [raised |-> FALSE, called |-> TRUE, failed |-> hr]

process_face_recognition_message(body, hr) ==
    IF JsonLoads(body) # "parsed"
    THEN \* except json.JSONDecodeError / except Exception: logged, swallowed
         [raised |-> FALSE, called |-> FALSE, failed |-> FALSE]
    ELSE IF TimestampRaises(body)
    THEN \* ValueError before the camera_id check: except Exception, swallowed
         [raised |-> FALSE, called |-> FALSE, failed |-> FALSE]
    ELSE IF ~HasCameraId(body)
    THEN \* "Missing camera_id ...": return
         [raised |-> FALSE, called |-> FALSE, failed |-> FALSE]
    ELSE \* get_db_session and the per-face handling run; an exception is caught by except Exception
         [raised |-> FALSE, called |-> TRUE, failed |-> hr]

(* message_handler of RabbitMQManager.consume_queue: only JSONDecodeError   *)
(* is swallowed; every other exception is logged and re-raised.  The        *)
(* callback is invoked for every parsed body, with no field validation.     *)
message_handler(body, hr) ==
    CASE JsonLoads(body) = "JSONDecodeError" ->
            [raised |-> FALSE, called |-> FALSE, failed |-> FALSE]
      [] JsonLoads(body) = "UnicodeDecodeError" ->
            [raised |-> TRUE, called |-> FALSE, failed |-> FALSE]
      [] OTHER ->
            [raised |-> hr, called |-> TRUE, failed |-> hr]

\* The block the consumer of queue q runs for a delivered message.
ConsumerBlock(q, body, hr) ==
    CASE q = "detection_queue"        -> process_detection_message(body, hr)
      [] q = "tracking_queue"         -> process_tracking_message(body, hr)
      [] q = "face_recognition_queue" -> process_face_recognition_message(body, hr)
      [] OTHER                        -> message_handler(body, hr)

\* message.process() is called without arguments: requeue defaults to False.
ProcessRequeue == FALSE

\* Mutant: the acknowledgement is inverted.
MessageProcessExit_Inverted(raised) ==
    IF raised THEN "ack" ELSE "reject"

\* Exit of aio_pika's `async with message.process()`: ack when the block
\* ends normally, reject(requeue=ProcessRequeue) when it is left by an
\* exception.
MessageProcessExit(raised) ==
    IF ~raised THEN "ack"
    ELSE IF ProcessRequeue THEN "nack_requeue" ELSE "reject"

(* ------------------------------ messages ------------------------------- *)
NewMessage(q, b) ==
    [queue |-> q, body |-> b, st |-> "ready", deliveries |-> 0,
     handlerCalls |-> 0, raises |-> 0, firstFailed |-> FALSE,
     lastFailed |-> FALSE, acks |-> 0, rejects |-> 0, requeues |-> 0,
     atCancel |-> "none"]

Unacked(q) == {i \in 1..Len(msgs) : msgs[i].queue = q /\ msgs[i].st = "unacked"}

\* A producer publishes body b with a routing key bound to queue q.
PublishTelemetry(q, b) ==
    /\ Len(msgs) < MaxMsgs
    /\ msgs' = Append(msgs, NewMessage(q, b))
    /\ ready' = [ready EXCEPT ![q] = Append(@, Len(msgs) + 1)]

\* The broker hands the head of queue q to its consumer, within the prefetch.
Deliver(q) ==
    /\ ready[q] # <<>>
    /\ \/ Prefetch(q) = NoPrefetchLimit
       \/ Cardinality(Unacked(q)) < Prefetch(q)
    /\ msgs[Head(ready[q])].deliveries < MaxDeliveries
    /\ msgs' = [msgs EXCEPT ![Head(ready[q])].st = "unacked",
                            ![Head(ready[q])].deliveries = @ + 1]
    /\ ready' = [ready EXCEPT ![q] = Tail(@)]

\* The message after its consumer's block ran and message.process() exited.
Settled(m, blk) ==
    LET verdict == MessageProcessExit(blk.raised)
        called  == IF blk.called THEN 1 ELSE 0
        failed  == IF blk.failed THEN 1 ELSE 0
    IN [m EXCEPT
          !.st = CASE verdict = "ack" -> "acked"
                   [] verdict = "reject" -> "rejected"
                   [] OTHER -> "ready",
          !.handlerCalls = @ + called,
          !.raises = @ + failed,
          !.firstFailed = IF blk.called /\ m.handlerCalls = 0 THEN blk.failed ELSE @,
          !.lastFailed = IF blk.called THEN blk.failed ELSE @,
          !.acks = @ + (IF verdict = "ack" THEN 1 ELSE 0),
          !.rejects = @ + (IF verdict = "reject" THEN 1 ELSE 0),
          !.requeues = @ + (IF verdict = "nack_requeue" THEN 1 ELSE 0)]

\* The consumer callback of message i runs to completion.
Process(i, hr) ==
    /\ i \in 1..Len(msgs)
    /\ msgs[i].st = "unacked"
    /\ LET m == msgs[i]
           after == Settled(m, ConsumerBlock(m.queue, m.body, hr))
       IN /\ msgs' = [msgs EXCEPT ![i] = after]
          /\ ready' = IF after.st = "ready"
                      THEN [ready EXCEPT ![m.queue] = <<i>> \o @]
                      ELSE ready

(* Cancellation of the worker's consumer task (stop_background_consumers, *)
(* or the event loop ending): CancelledError leaves `await asyncio.Future()`*)
(* in start_consuming, run_consumer's finally closes the connection, and   *)
(* the callback of a message in flight is cancelled inside message.process().*)
\* The message in flight after the cancellation.  CancelledError leaves its
\* `async with message.process()` block as any exception does; if that
\* verdict reaches the broker before the connection is closed it stands,
\* otherwise the broker returns the unacknowledged message to its queue.
Cancelled(m, reached) ==
    LET verdict == IF reached THEN MessageProcessExit(TRUE)
                   ELSE "nack_requeue" IN
    [m EXCEPT
        !.st = CASE verdict = "ack" -> "acked"
                 [] verdict = "reject" -> "rejected"
                 [] OTHER -> "ready",
        !.acks = @ + (IF verdict = "ack" THEN 1 ELSE 0),
        !.rejects = @ + (IF verdict = "reject" THEN 1 ELSE 0),
        !.requeues = @ + (IF verdict = "nack_requeue" THEN 1 ELSE 0),
        !.atCancel = IF verdict = "nack_requeue" THEN "requeued"
                     ELSE IF verdict = "reject" THEN "rejected" ELSE "acked"]

\* The elements of a set of numbers in increasing order.
RECURSIVE Ascending(_)
Ascending(S) ==
    IF S = {} THEN <<>>
    ELSE LET least == CHOOSE x \in S : \A y \in S : x <= y
         IN <<least>> \o Ascending(S \ {least})

\* The worker's consumer task is cancelled while messages are in flight.
CancelConsumer(reached) ==
    LET inflight == UNION {Unacked(q) : q \in WorkerQueues} IN
    /\ inflight # {}
    /\ msgs' = [i \in 1..Len(msgs) |->
                   IF i \in inflight THEN Cancelled(msgs[i], reached[i])
                   ELSE msgs[i]]
    /\ ready' = [q \in Queues |->
                    Ascending({i \in inflight :
                                  /\ msgs[i].queue = q
                                  /\ Cancelled(msgs[i], reached[i]).st = "ready"})
                    \o ready[q]]

(* ------------------- connection manager (core) ------------------------ *)
\* self._max_reconnect_attempts
MaxReconnectAttempts == 5
\* asyncio.sleep(5 * self._reconnect_attempts)
BackoffBase == 5

\* What can go wrong in one call besides the broker being unreachable: the
\* named network operation fails.
Faults == {"none", "connect", "channel", "declare", "publish", "close", "consume"}

ConnIds == 1..MaxConns
NoConn == 0

\* A world: the manager's fields, the broker, and the log of the running call.
World(m, b, l) == [m |-> m, b |-> b, l |-> l]

\* The log of a call: its result, and the network operations and waits it
\* made, in order.
\* failedReconnects is history, not a field of the program: the number of
\* reconnect() calls that have failed since the last successful connect(),
\* counted up to the ceiling.  entryFailed is its value when the call began.
\* changed tells whether the call left the manager or the broker different
\* from how it found them; entryOpen whether the manager's connection was
\* open and the broker reachable when the call began.
NewLog(op, m) ==
    [op |-> op, ret |-> "none", raised |-> FALSE,
     entryConnected |-> m.is_connected, trace |-> <<>>, sleeps |-> <<>>,
     entryAttempts |-> m._reconnect_attempts,
     entryOpen |-> (m.connection # NoConn /\ m.connection \in broker.open
                    /\ broker.up),
     entryFailed |-> last.failedReconnects,
     failedReconnects |-> last.failedReconnects,
     changed |-> FALSE]

Did(w, step) == [w EXCEPT !.l.trace = Append(@, step)]
Returns(w, v) == [w EXCEPT !.l.ret = v]

\* Connection ids not in use: not held open by a client, not referenced.
FreeIds(m, b) ==
    ConnIds \ (b.open \cup {m.connection, m.channel, m.exchange}
                      \cup {conns[o] : o \in DOMAIN conns})
FreshId(m, b) == CHOOSE c \in FreeIds(m, b) : \A d \in FreeIds(m, b) : c <= d

\* A connection (and the channel and exchange handles made on it) works
\* while the client holds it open and the broker is reachable.
Usable(b, c) == c # NoConn /\ c \in b.open /\ b.up

\* Mutant: a successful connect leaves the attempt counter alone.
connect_NoReset(w, f) ==
    LET w0 == Did(w, "connect") IN
    IF ~w0.b.up \/ f = "connect"
    THEN Returns([w0 EXCEPT !.m.is_connected = FALSE], "False")
    ELSE LET c  == FreshId(w0.m, w0.b)
             w1 == [w0 EXCEPT !.b.open = @ \cup {c}, !.m.connection = c]
         IN IF f = "channel"
            THEN Returns([w1 EXCEPT !.m.is_connected = FALSE], "False")
            ELSE IF f = "declare"
            THEN Returns([w1 EXCEPT !.m.channel = c,
                                    !.m.is_connected = FALSE], "False")
            ELSE Returns([w1 EXCEPT !.m.channel = c, !.m.exchange = c,
                                    !.m.is_connected = TRUE,
                                    !.l.failedReconnects = 0], "True")

\* Mutant: the flag is raised first and a failure does not lower it.
connect_FlagFirst(w, f) ==
    LET w0 == [Did(w, "connect") EXCEPT !.m.is_connected = TRUE] IN
    IF ~w0.b.up \/ f = "connect"
    THEN Returns(w0, "False")
    ELSE LET c  == FreshId(w0.m, w0.b)
             w1 == [w0 EXCEPT !.b.open = @ \cup {c}, !.m.connection = c]
         IN IF f = "channel"
            THEN Returns(w1, "False")
            ELSE IF f = "declare"
            THEN Returns([w1 EXCEPT !.m.channel = c], "False")
            ELSE Returns([w1 EXCEPT !.m.channel = c, !.m.exchange = c,
                                    !.m._reconnect_attempts = 0,
                                    !.l.failedReconnects = 0], "True")

\* RabbitMQManager.connect
connect(w, f) ==
    LET w0 == Did(w, "connect") IN
    IF ~w0.b.up \/ f = "connect"
    THEN \* aio_pika.connect_robust raises
         Returns([w0 EXCEPT !.m.is_connected = FALSE], "False")
    ELSE LET c  == FreshId(w0.m, w0.b)
             w1 == [w0 EXCEPT !.b.open = @ \cup {c}, !.m.connection = c]
         IN IF f = "channel"
            THEN \* connection.channel() or set_qos raises
                 Returns([w1 EXCEPT !.m.is_connected = FALSE], "False")
            ELSE IF f = "declare"
            THEN \* channel.declare_exchange raises
                 Returns([w1 EXCEPT !.m.channel = c,
                                    !.m.is_connected = FALSE], "False")
            ELSE Returns([w1 EXCEPT !.m.channel = c, !.m.exchange = c,
                                    !.m.is_connected = TRUE,
                                    !.m._reconnect_attempts = 0,
                                    !.l.failedReconnects = 0], "True")

\* Mutant: the fields are cleared after the close, not in a finally block.
disconnect_NoFinally(w, f) ==
    LET closing == w.m.connection # NoConn /\ w.m.connection \in w.b.open
        w0 == Did(w, "disconnect")
    IN IF closing /\ f = "close"
       THEN Did(w0, "close_raises")
       ELSE [(IF closing THEN Did(w0, "close") ELSE w0)
                EXCEPT !.b.open = @ \ {w.m.connection},
                       !.m.is_connected = FALSE, !.m.connection = NoConn,
                       !.m.channel = NoConn, !.m.exchange = NoConn,
                       !.m.queues = {}]

\* RabbitMQManager.disconnect
disconnect(w, f) ==
    LET closing == w.m.connection # NoConn /\ w.m.connection \in w.b.open
        \* connection.close() raising is logged; the connection stays open
        open1 == IF closing /\ f # "close"
                 THEN w.b.open \ {w.m.connection}
                 ELSE w.b.open
        w0 == Did(w, "disconnect")
        w1 == IF closing
              THEN Did(w0, IF f = "close" THEN "close_raises" ELSE "close")
              ELSE w0
    IN \* the finally block
       [w1 EXCEPT !.b.open = open1,
                  !.m.is_connected = FALSE, !.m.connection = NoConn,
                  !.m.channel = NoConn, !.m.exchange = NoConn,
                  !.m.queues = {}]

\* Mutant: the wait doubles with every attempt.
Backoff_Exponential(n) == BackoffBase * 2 ^ (n - 1)

\* The wait before attempt n: asyncio.sleep(5 * self._reconnect_attempts).
Backoff(n) == BackoffBase * n

\* A reconnect() call that returns False adds to the history count.
FailedReconnect(w) ==
    IF w.l.ret = "False"
    THEN [w EXCEPT !.l.failedReconnects =
                       IF @ < MaxReconnectAttempts THEN @ + 1 ELSE @]
    ELSE w

\* Mutant: the ceiling test lets a sixth attempt through.
reconnect_OffByOne(w, f) ==
    LET w0 == Did(w, "reconnect") IN
    IF w0.m._reconnect_attempts > MaxReconnectAttempts
    THEN FailedReconnect(Returns(w0, "False"))
    ELSE LET n  == w0.m._reconnect_attempts + 1
             w1 == [w0 EXCEPT !.m._reconnect_attempts = n]
             w2 == disconnect(w1, f)
             w3 == [Did(w2, "sleep") EXCEPT !.l.sleeps = Append(@, Backoff(n))]
         IN FailedReconnect(connect(w3, f))

\* Mutant: a call refused at the ceiling starts the count again.
reconnect_ResetAtCeiling(w, f) ==
    LET w0 == Did(w, "reconnect") IN
    IF w0.m._reconnect_attempts >= MaxReconnectAttempts
    THEN FailedReconnect(Returns([w0 EXCEPT !.m._reconnect_attempts = 0], "False"))
    ELSE LET n  == w0.m._reconnect_attempts + 1
             w1 == [w0 EXCEPT !.m._reconnect_attempts = n]
             w2 == disconnect(w1, f)
             w3 == [Did(w2, "sleep") EXCEPT !.l.sleeps = Append(@, Backoff(n))]
         IN FailedReconnect(connect(w3, f))

\* RabbitMQManager.reconnect
reconnect(w, f) ==
    LET w0 == Did(w, "reconnect") IN
    IF w0.m._reconnect_attempts >= MaxReconnectAttempts
    THEN FailedReconnect(Returns(w0, "False"))
    ELSE LET n  == w0.m._reconnect_attempts + 1
             w1 == [w0 EXCEPT !.m._reconnect_attempts = n]
             w2 == disconnect(w1, f)
             w3 == [Did(w2, "sleep") EXCEPT !.l.sleeps = Append(@, Backoff(n))]
         IN FailedReconnect(connect(w3, f))

\* exchange.publish inside publish_message's try block.
\* Mutant: a publish that raised is reported as a success.
ExchangePublish_Silent(w, f) ==
    IF w.m.exchange = NoConn
    THEN Returns(w, "True")
    ELSE IF Usable(w.b, w.m.exchange) /\ f # "publish"
    THEN Returns(Did(w, "publish_ok"), "True")
    ELSE Returns(Did(w, "publish_fail"), "True")

\* The try block of publish_message: exchange.publish, with what the
\* `except Exception` makes of a failure.
ExchangePublish(w, f) ==
    IF w.m.exchange = NoConn
    THEN \* self.exchange is None: AttributeError, caught
         Returns([w EXCEPT !.m.is_connected = FALSE], "False")
    ELSE IF Usable(w.b, w.m.exchange) /\ f # "publish"
    THEN Returns(Did(w, "publish_ok"), "True")
    ELSE \* exchange.publish raises: caught
         Returns([Did(w, "publish_fail") EXCEPT !.m.is_connected = FALSE], "False")

\* Mutant: a failed publish is followed by a reconnect and a second publish.
publish_message_Retry(w, f) ==
    LET w1 == IF ~w.m.is_connected THEN reconnect(w, f) ELSE w
        w2 == ExchangePublish(w1, f)
    IN IF ~w.m.is_connected /\ w1.l.ret = "False"
       THEN w1
       ELSE IF w2.l.ret = "True" THEN w2
       ELSE LET w3 == reconnect(w2, "none")
            IN IF w3.l.ret = "False" THEN w3 ELSE ExchangePublish(w3, "none")

\* RabbitMQManager.publish_message
publish_message(w, f) ==
    LET w1 == IF ~w.m.is_connected THEN reconnect(w, f) ELSE w IN
    IF ~w.m.is_connected /\ w1.l.ret = "False"
    THEN w1
    ELSE ExchangePublish(w1, f)

\* RabbitMQManager.declare_queue
declare_queue(w, q, f) ==
    IF ~w.m.is_connected
    THEN [w EXCEPT !.l.raised = TRUE]
    ELSE IF Usable(w.b, w.m.channel) /\ f # "declare"
    THEN Did([w EXCEPT !.m.queues = @ \cup {q}], "declare_queue")
    ELSE [Did(w, "declare_queue") EXCEPT !.l.raised = TRUE]

\* RabbitMQManager.consume_queue
consume_queue(w, q, f) ==
    LET w1 == IF ~w.m.is_connected THEN reconnect(w, f) ELSE w IN
    IF ~w.m.is_connected /\ w1.l.ret = "False"
    THEN w1
    ELSE IF q \notin w1.m.queues
    THEN Returns(w1, "False")
    ELSE IF Usable(w1.b, w1.m.channel) /\ f # "consume"
    THEN Returns(Did([w1 EXCEPT !.m.consumers = @ \cup {q}], "consume_ok"), "True")
    ELSE \* queue.consume raises: caught
         Returns(Did(w1, "consume_fail"), "False")

\* Mutant: the _is_connected flag is not consulted.
health_check_NoFlag(w, f) ==
    IF w.m.connection = NoConn \/ w.m.connection \notin w.b.open
    THEN Returns(w, "False")
    ELSE IF Usable(w.b, w.m.connection) /\ f # "declare"
    THEN Returns(Did(w, "probe_ok"), "True")
    ELSE Returns([Did(w, "probe_fail") EXCEPT !.m.is_connected = FALSE], "False")

\* RabbitMQManager.health_check
health_check(w, f) ==
    IF ~w.m.is_connected \/ w.m.connection = NoConn
       \/ w.m.connection \notin w.b.open
    THEN Returns(w, "False")
    ELSE IF Usable(w.b, w.m.channel) /\ f # "declare"
    THEN \* the temporary exclusive queue is declared and deleted
         Returns(Did(w, "probe_ok"), "True")
    ELSE \* declare_queue or delete raises: caught
         Returns([Did(w, "probe_fail") EXCEPT !.m.is_connected = FALSE], "False")

\* The manager, the broker and the call log after a call.
Becomes(w) ==
    /\ mgr' = w.m
    /\ broker' = w.b
    /\ last' = [w.l EXCEPT !.changed = (w.m # mgr \/ w.b # broker)]

Start(op) == World(mgr, broker, NewLog(op, mgr))

\* A call that may open a connection needs an id to name it.
CanOpen == FreeIds(mgr, broker) # {}

Connect(f) == CanOpen /\ Becomes(connect(Start("connect"), f))
Disconnect(f) == Becomes(disconnect(Start("disconnect"), f))
Reconnect(f) == CanOpen /\ Becomes(reconnect(Start("reconnect"), f))
PublishMessage(f) == CanOpen /\ Becomes(publish_message(Start("publish_message"), f))
DeclareQueue(q, f) == Becomes(declare_queue(Start("declare_queue"), q, f))
ConsumeQueue(q, f) == CanOpen /\ Becomes(consume_queue(Start("consume_queue"), q, f))
HealthCheck(f) == Becomes(health_check(Start("health_check"), f))

\* The broker becomes unreachable, or reachable again (robust connections
\* that are still held open resume).
BrokerDown == broker.up /\ broker' = [broker EXCEPT !.up = FALSE]
BrokerUp == ~broker.up /\ broker' = [broker EXCEPT !.up = TRUE]

ManagerInit ==
    /\ mgr = [connection |-> NoConn, channel |-> NoConn, exchange |-> NoConn,
              queues |-> {}, consumers |-> {}, is_connected |-> FALSE,
              _reconnect_attempts |-> 0]
    /\ broker = [up |-> TRUE, open |-> {}]
    /\ last = [op |-> "init", failedReconnects |-> 0]

ManagerFrame == UNCHANGED <<dvars, avars, xvars>>
ConnectAny == ManagerFrame /\ \E f \in Faults : Connect(f)
DisconnectAny == ManagerFrame /\ \E f \in Faults : Disconnect(f)
ReconnectAny == ManagerFrame /\ \E f \in Faults : Reconnect(f)
PublishMessageAny == ManagerFrame /\ \E f \in Faults : PublishMessage(f)
DeclareQueueAny ==
    ManagerFrame /\ \E q \in CoreQueues, f \in Faults : DeclareQueue(q, f)
ConsumeQueueAny ==
    ManagerFrame /\ \E q \in CoreQueues, f \in Faults : ConsumeQueue(q, f)
HealthCheckAny == ManagerFrame /\ \E f \in Faults : HealthCheck(f)
BrokerGoesDown == ManagerFrame /\ BrokerDown /\ UNCHANGED <<mgr, last>>
BrokerComesUp == ManagerFrame /\ BrokerUp /\ UNCHANGED <<mgr, last>>

ManagerNext ==
    \/ ConnectAny \/ DisconnectAny \/ ReconnectAny \/ PublishMessageAny
    \/ DeclareQueueAny \/ ConsumeQueueAny \/ HealthCheckAny
    \/ BrokerGoesDown \/ BrokerComesUp

(* ------------------- the other connection owners --------------------- *)
\* Besides the global manager of app/core/rabbitmq.py, three more places of
\* the program call aio_pika.connect_robust: the singleton of
\* app/services/rabbitmq_manager.py (used by the streaming gateway), the
\* telemetry consumer of app/workers/rabbitmq_consumer.py, and every call of
\* app/services/rabbitmq_service.publish_camera_event.
Owners == {"services_manager", "consumer", "publisher"}

HeldOpen(o) == conns[o] # NoConn /\ conns[o] \in broker.open

\* aio_pika.connect_robust by owner o: a new connection, or an exception.
OwnerOpens(o, f) ==
    /\ CanOpen
    /\ IF broker.up /\ f # "connect"
       THEN LET c == FreshId(mgr, broker) IN
            /\ broker' = [broker EXCEPT !.open = @ \cup {c}]
            /\ conns' = [conns EXCEPT ![o] = c]
       ELSE UNCHANGED <<broker, conns>>

\* connection.close() by owner o; forget tells whether the reference is dropped.
OwnerCloses(o, forget) ==
    /\ HeldOpen(o)
    /\ broker' = [broker EXCEPT !.open = @ \ {conns[o]}]
    /\ conns' = IF forget THEN [conns EXCEPT ![o] = NoConn] ELSE conns

\* services.rabbitmq_manager.RabbitMQManager.get_connection
get_connection(f) ==
    IF HeldOpen("services_manager")
    THEN UNCHANGED <<broker, conns>>
    ELSE OwnerOpens("services_manager", f)

\* services.rabbitmq_manager.RabbitMQManager.close_connection
close_connection == OwnerCloses("services_manager", TRUE)

\* RabbitMQConsumer.connect: whatever self.connection held is overwritten.
consumer_connect(f) == OwnerOpens("consumer", f)

\* RabbitMQConsumer.close
consumer_close == OwnerCloses("consumer", FALSE)

\* publish_camera_event, line 17: the call opens its own connection...
publisher_opens(f) == ~HeldOpen("publisher") /\ OwnerOpens("publisher", f)

\* ...and `async with connection` closes it when the call ends.
publisher_closes == OwnerCloses("publisher", TRUE)

ConnsInit == conns = [o \in Owners |-> NoConn]

OwnerFrame == UNCHANGED <<dvars, avars, mgr, last, exch, gw>>
GetConnectionAny == OwnerFrame /\ \E f \in {"none", "connect"} : get_connection(f)
CloseConnectionAny == OwnerFrame /\ close_connection
ConsumerConnectAny == OwnerFrame /\ \E f \in {"none", "connect"} : consumer_connect(f)
ConsumerCloseAny == OwnerFrame /\ consumer_close
PublisherOpensAny == OwnerFrame /\ \E f \in {"none", "connect"} : publisher_opens(f)
PublisherClosesAny == OwnerFrame /\ publisher_closes

\* One process: the global manager and the other owners side by side.
ProcessNext ==
    \/ ConnectAny \/ DisconnectAny
    \/ GetConnectionAny \/ CloseConnectionAny
    \/ ConsumerConnectAny \/ ConsumerCloseAny
    \/ PublisherOpensAny \/ PublisherClosesAny
    \/ BrokerGoesDown \/ BrokerComesUp

(* get_connection of the shared manager, step by step: the test of line 21 *)
(* and the assignment of line 29 are separated by the await of             *)
(* connect_robust, where other coroutines run.                             *)
Callers == 1..MaxCallers

\* Line 21: `if self._connection is None or self._connection.is_closed`;
\* an open connection is returned at once.
get_connection_test(k) ==
    /\ gw.getconn[k].pc = "idle"
    /\ gw' = [gw EXCEPT !.getconn[k] =
                 IF HeldOpen("services_manager")
                 THEN [pc |-> "returned", got |-> conns["services_manager"]]
                 ELSE [pc |-> "connecting", got |-> NoConn]]
    /\ UNCHANGED <<broker, conns>>

\* Lines 29-34: connect_robust returns (or raises), the new connection is
\* stored in self._connection and returned; it raises while the broker
\* is down.
get_connection_connected(k) ==
    /\ gw.getconn[k].pc = "connecting"
    /\ CanOpen
    /\ IF broker.up
       THEN LET c == FreshId(mgr, broker) IN
            /\ broker' = [broker EXCEPT !.open = @ \cup {c}]
            /\ conns' = [conns EXCEPT !["services_manager"] = c]
            /\ gw' = [gw EXCEPT !.getconn[k] = [pc |-> "returned", got |-> c]]
       ELSE /\ gw' = [gw EXCEPT !.getconn[k] = [pc |-> "raised", got |-> NoConn]]
            /\ UNCHANGED <<broker, conns>>

\* The request that asked for the connection ends.
request_ends(k) ==
    /\ gw.getconn[k].pc \in {"returned", "raised"}
    /\ gw' = [gw EXCEPT !.getconn[k] = [pc |-> "idle", got |-> NoConn]]
    /\ UNCHANGED <<broker, conns>>

CallerFrame == UNCHANGED <<dvars, avars, mgr, last, exch>>
GetConnectionTestAny == CallerFrame /\ \E k \in Callers : get_connection_test(k)
GetConnectionConnectedAny ==
    CallerFrame /\ \E k \in Callers : get_connection_connected(k)
RequestEndsAny == CallerFrame /\ \E k \in Callers : request_ends(k)

\* Requests that ask the shared manager for its connection, interleaved.
SharedConnNext ==
    \/ GetConnectionTestAny \/ GetConnectionConnectedAny \/ RequestEndsAny
    \/ CloseConnectionAny \/ BrokerGoesDown \/ BrokerComesUp

(* ------------------------ ROS2MessageConsumer -------------------------- *)
\* exch.ros2 holds the consumer object's _running flag and, as history, the
\* queues that have a consumer attached on the manager's present connection.
\* One network operation of a call may fail: fault f at the connect, or at
\* the declaration or the consume of queue `at`.
FaultPoints == {"connect"} \cup CoreQueues
FaultAt(f, at, here) == IF at = here THEN f ELSE "none"

\* ROS2MessageConsumer._setup_queues: the three declarations in order; the
\* first that raises ends it.
RECURSIVE setup_core_queues(_, _, _, _)
setup_core_queues(w, qs, f, at) ==
    IF qs = <<>> \/ w.l.raised THEN w
    ELSE setup_core_queues(declare_queue(w, Head(qs), FaultAt(f, at, Head(qs))),
                           Tail(qs), f, at)

\* ROS2MessageConsumer._start_queue_consumers: three consume_queue calls
\* whose results are not looked at.
RECURSIVE _start_queue_consumers(_, _, _, _)
_start_queue_consumers(r, qs, f, at) ==
    IF qs = <<>> THEN r
    ELSE LET w1 == consume_queue(r.w, Head(qs), FaultAt(f, at, Head(qs)))
         IN _start_queue_consumers(
                [w |-> w1,
                 attached |-> IF w1.l.ret = "True"
                              THEN r.attached \cup {Head(qs)} ELSE r.attached],
                Tail(qs), f, at)

CoreQueueOrder == <<"ros2_detections", "ros2_tracking", "ros2_faces">>

\* ROS2MessageConsumer.start_consuming
start_consuming(w, c, f, at) ==
    IF c.running THEN [w |-> Returns(w, "None"), c |-> c]
    ELSE LET w1 == connect(w, FaultAt(f, at, "connect")) IN
         IF w1.l.ret = "False"
         THEN [w |-> [w1 EXCEPT !.l.raised = TRUE], c |-> c]
         ELSE LET c1 == [c EXCEPT !.attached = {}]
                  w2 == setup_core_queues(w1, CoreQueueOrder, f, at)
              IN IF w2.l.raised THEN [w |-> w2, c |-> c1]
                 ELSE LET r == _start_queue_consumers(
                                   [w |-> w2, attached |-> {}],
                                   CoreQueueOrder, f, at)
                      IN IF r.w.l.raised
                         THEN [w |-> r.w,
                               c |-> [c1 EXCEPT !.attached = r.attached]]
                         ELSE [w |-> Returns(r.w, "None"),
                               c |-> [running |-> TRUE,
                                      attached |-> r.attached]]

\* ROS2MessageConsumer.stop_consuming: Queue.cancel() is called without the
\* consumer tag it requires, which RabbitMQManager.stop_consuming catches;
\* the consumers go with the connection that disconnect() closes.
ros2_stop_consuming(w, c, f) ==
    IF ~c.running THEN [w |-> Returns(w, "None"), c |-> c]
    ELSE LET w1 == disconnect(w, f) IN
         [w |-> Returns(w1, "None"),
          c |-> [running |-> FALSE,
                 attached |-> IF "close" \in {w1.l.trace[i] :
                                                i \in 1..Len(w1.l.trace)}
                              THEN {} ELSE c.attached]]

Ros2Frame == UNCHANGED <<dvars, avars, conns, gw>>
StartConsuming(f, at) ==
    /\ CanOpen
    /\ LET r == start_consuming(Start("start_consuming"), exch.ros2, f, at)
       IN Becomes(r.w) /\ exch' = [exch EXCEPT !.ros2 = r.c]
StopConsuming(f) ==
    LET r == ros2_stop_consuming(Start("stop_consuming"), exch.ros2, f)
    IN Becomes(r.w) /\ exch' = [exch EXCEPT !.ros2 = r.c]
StartConsumingAny ==
    Ros2Frame /\ \E f \in Faults, at \in FaultPoints : StartConsuming(f, at)
StopConsumingAny == Ros2Frame /\ \E f \in Faults : StopConsuming(f)

Ros2Next ==
    \/ StartConsumingAny \/ StopConsumingAny
    \/ BrokerGoesDown \/ BrokerComesUp

(* ------------------------- background workers -------------------------- *)
\* gw.workers holds the worker_tasks list of app/workers/__init__.py as
\* monitor_workers finds it (three running tasks), and the monitor itself.
\* gen counts the tasks a slot has held, to tell a new task from the old.
WorkerNames == <<"rabbitmq_consumer", "data_processor", "cleanup_worker">>
WorkerSlots == 1..Len(WorkerNames)
TaskEnds == {"returned", "raised", "cancelled"}
RestartFaults == {"none", "import"}

\* restart_worker: a new task of the same name replaces the old one in its
\* slot; an exception (a failing import) is logged and the slot keeps the
\* finished task.
restart_worker(slots, index, task_name, f) ==
    IF f = "import" \/ task_name \notin {WorkerNames[i] : i \in WorkerSlots}
    THEN slots
    ELSE [slots EXCEPT ![index] = [name |-> task_name, state |-> "running",
                                   gen |-> @.gen + 1]]

\* One pass of monitor_workers' for loop, from slot i on.  Nothing in it
\* suspends: the awaited task is done and restart_worker awaits nothing.
\* `await task` re-raises the task's exception; CancelledError is not an
\* Exception, so it leaves the for loop and reaches the outer handler, which
\* breaks out of the while loop.
RECURSIVE monitor_pass(_, _, _)
monitor_pass(wk, i, f) ==
    IF i \notin WorkerSlots THEN wk
    ELSE IF wk.slots[i].state = "running" THEN monitor_pass(wk, i + 1, f)
    ELSE IF wk.slots[i].state = "cancelled"
    THEN [wk EXCEPT !.monitor = "stopped"]
    ELSE monitor_pass([wk EXCEPT !.slots = restart_worker(@, i, wk.slots[i].name, f)],
                      i + 1, f)

WorkerFrame == UNCHANGED <<dvars, mvars, avars, conns, exch>>

\* A worker task returns, raises, or is cancelled on its own.
WorkerEnds(i, how) ==
    /\ gw.workers.slots[i].state = "running"
    /\ gw.workers.slots[i].gen < MaxRestarts
    /\ gw' = [gw EXCEPT !.workers.slots[i].state = how]

\* The monitor wakes from its sleep and goes through worker_tasks.
MonitorPass(f) ==
    /\ gw.workers.monitor = "running"
    /\ gw' = [gw EXCEPT !.workers = monitor_pass(@, 1, f)]

\* The monitor's own task is cancelled while it sleeps.
MonitorCancelled ==
    /\ gw.workers.monitor = "running"
    /\ gw' = [gw EXCEPT !.workers.monitor = "stopped",
                        !.workers.monitorCancelled = TRUE]

WorkerEndsAny ==
    WorkerFrame /\ \E i \in WorkerSlots, how \in TaskEnds : WorkerEnds(i, how)
MonitorPassAny == WorkerFrame /\ \E f \in RestartFaults : MonitorPass(f)
MonitorCancelledAny == WorkerFrame /\ MonitorCancelled

WorkersNext == WorkerEndsAny \/ MonitorPassAny \/ MonitorCancelledAny

(* ---------------------- the lifecycle exchange ------------------------- *)
LifecycleExchange == "camera.events"
\* Queues that consumers of lifecycle events bind, and the keys they bind with.
LifecycleQueues == {"ros_bridge", "recorder"}
BindingKeys == {"", "events"}

\* The queues an exchange of the declared type hands a message to.
Route(type, routing_key, bindings) ==
    IF type = "fanout"
    THEN {b.queue : b \in bindings}
    ELSE {b.queue : b \in {x \in bindings : x.key = routing_key \/ x.key = "#"}}

Payload(e) == [action |-> e.action, camera_id |-> e.camera_id]

\* The exchange after the messages sent by one publisher call.
Routed(x, sent) ==
    [x EXCEPT !.inbox =
        [q \in LifecycleQueues |->
            LET to == {e \in sent : /\ e.exchange = LifecycleExchange
                                    /\ q \in Route(e.type, e.routing_key, x.bindings)}
            IN IF to = {} THEN x.inbox[q]
               ELSE Append(x.inbox[q], Payload(CHOOSE e \in to : TRUE))]]

BindQueue(q, key) ==
    /\ [queue |-> q, key |-> key] \notin exch.bindings
    /\ exch' = [exch EXCEPT !.bindings = @ \cup {[queue |-> q, key |-> key]}]

UnbindQueue(q, key) ==
    /\ [queue |-> q, key |-> key] \in exch.bindings
    /\ exch' = [exch EXCEPT !.bindings = @ \ {[queue |-> q, key |-> key]}]

ExchInit ==
    exch = [bindings |-> {}, inbox |-> [q \in LifecycleQueues |-> <<>>],
            topo |-> [sd \in {"worker", "core"} |->
                         [exchanges |-> {}, queues |-> {}, bindings |-> {},
                          completed |-> FALSE]],
            routed |-> 0,
            got |-> [q \in {"detection_queue", "tracking_queue",
                            "face_recognition_queue", "ros2_detections",
                            "ros2_tracking", "ros2_faces"} |-> 0],
            ros2 |-> [running |-> FALSE, attached |-> {}],
            route |-> [op |-> "init"]]

\* No bound queue is at the model's bound.
InboxRoom == \A q \in LifecycleQueues : Len(exch.inbox[q]) < MaxPublished

(* ----------------------- telemetry topology ---------------------------- *)
\* The two consumers that set up telemetry queues: the worker
\* (RabbitMQConsumer) and the core consumer (ROS2MessageConsumer).
Sides == {"worker", "core"}
TelemetryTypes == {"detection", "tracking", "face"}
\* Camera ids of telemetry messages (integers in the schemas): one word of
\* a routing key each.
TelemetryCameraIds == {<<"1">>, <<"2">>}

\* AMQP topic matching of a routing key against a binding pattern, both as
\* sequences of words: * stands for exactly one word, # for zero or more.
RECURSIVE TopicMatch(_, _)
TopicMatch(pattern, key) ==
    IF pattern = <<>> THEN key = <<>>
    ELSE IF Head(pattern) = "#"
    THEN \/ TopicMatch(Tail(pattern), key)
         \/ (key # <<>> /\ TopicMatch(pattern, Tail(key)))
    ELSE /\ key # <<>>
         /\ Head(pattern) = "*" \/ Head(pattern) = Head(key)
         /\ TopicMatch(Tail(pattern), Tail(key))

\* RabbitMQConsumer.setup_queues, operation by operation.
setup_queues ==
    <<[op |-> "exchange", name |-> "smart_camera_exchange", type |-> "topic",
       durable |-> TRUE],
      [op |-> "queue", name |-> "detection_queue", durable |-> TRUE],
      [op |-> "queue", name |-> "tracking_queue", durable |-> TRUE],
      [op |-> "queue", name |-> "face_recognition_queue", durable |-> TRUE],
      [op |-> "bind", queue |-> "detection_queue",
       pattern |-> <<"camera", "detection", "*">>],
      [op |-> "bind", queue |-> "tracking_queue",
       pattern |-> <<"camera", "tracking", "*">>],
      [op |-> "bind", queue |-> "face_recognition_queue",
       pattern |-> <<"camera", "face", "*">>]>>

\* ROS2MessageConsumer.start_consuming up to the end of _setup_queues:
\* RabbitMQManager.connect declares the exchange, and each
\* RabbitMQManager.declare_queue declares a queue and binds it.
_setup_queues ==
    <<[op |-> "exchange", name |-> "ros2_exchange", type |-> "topic",
       durable |-> TRUE],
      [op |-> "queue", name |-> "ros2_detections", durable |-> TRUE],
      [op |-> "bind", queue |-> "ros2_detections",
       pattern |-> <<"ros2", "detections">>],
      [op |-> "queue", name |-> "ros2_tracking", durable |-> TRUE],
      [op |-> "bind", queue |-> "ros2_tracking",
       pattern |-> <<"ros2", "tracking">>],
      [op |-> "queue", name |-> "ros2_faces", durable |-> TRUE],
      [op |-> "bind", queue |-> "ros2_faces",
       pattern |-> <<"ros2", "faces">>]>>

SetupOf(side) == IF side = "worker" THEN setup_queues ELSE _setup_queues

\* The queue each side consumes a telemetry type from.
TypeQueue(side, type) ==
    IF side = "worker"
    THEN (IF type = "detection" THEN "detection_queue"
          ELSE IF type = "tracking" THEN "tracking_queue"
          ELSE "face_recognition_queue")
    ELSE (IF type = "detection" THEN "ros2_detections"
          ELSE IF type = "tracking" THEN "ros2_tracking"
          ELSE "ros2_faces")
TelemetryQueues == {TypeQueue(sd, ty) : sd \in Sides, ty \in TelemetryTypes}

\* The broker after one operation of a setup.
ApplySetupStep(t, step) ==
    IF step.op = "exchange"
    THEN [t EXCEPT !.exchanges = @ \cup
             {[name |-> step.name, type |-> step.type,
               durable |-> step.durable]}]
    ELSE IF step.op = "queue"
    THEN [t EXCEPT !.queues = @ \cup
             {[name |-> step.name, durable |-> step.durable]}]
    ELSE [t EXCEPT !.bindings = @ \cup
             {[queue |-> step.queue, pattern |-> step.pattern]}]

\* The broker after the first n operations of a setup.
RECURSIVE ApplySetup(_, _, _)
ApplySetup(t, steps, n) ==
    IF n = 0 THEN t
    ELSE ApplySetupStep(ApplySetup(t, steps, n - 1), steps[n])

\* A side runs its setup; operation number f raises (f = 0: none does),
\* which ends the setup there.
SetupQueues(side, f) ==
    LET steps == SetupOf(side)
        n == IF f = 0 THEN Len(steps) ELSE f - 1 IN
    /\ ~exch.topo[side].completed
    /\ exch' = [exch EXCEPT
                   !.topo[side] =
                       [ApplySetup(@, steps, n) EXCEPT !.completed = (f = 0)],
                   !.route = [op |-> "setup", side |-> side,
                              raised |-> f # 0]]

\* A producer publishes a telemetry message of a camera to a side's
\* exchange with routing key camera.<type>.<camera id>; the broker hands it
\* to every queue with a matching binding.
RouteTelemetry(side, type, camera_id) ==
    LET key == <<"camera", type>> \o camera_id
        to == {b.queue : b \in {x \in exch.topo[side].bindings :
                                       TopicMatch(x.pattern, key)}} IN
    /\ exch.topo[side].exchanges # {}
    /\ exch.routed < MaxRouted
    /\ exch' = [exch EXCEPT
                   !.routed = @ + 1,
                   !.got = [q \in TelemetryQueues |->
                               IF q \in to THEN @[q] + 1 ELSE @[q]],
                   !.route = [op |-> "route", side |-> side, type |-> type,
                              key |-> key, to |-> to,
                              completed |-> exch.topo[side].completed,
                              queues |-> {x.name : x \in exch.topo[side].queues}]]

(* ----------------------- streaming gateway ---------------------------- *)
StreamCameras == {"cam1", "cam2"}

\* "x-max-length": 5
StreamMaxLength == 5
\* "x-message-ttl": 2000
StreamTtlMs == 2000

\* Mutant: the queue refuses new frames when it is full.
StreamQueueArguments_RejectPublish ==
    [max_length |-> StreamMaxLength, overflow |-> "reject-publish",
     ttl |-> StreamTtlMs]

\* The arguments StreamService._ensure_queues_declared declares
\* camera.stream.{camera_id} with.
StreamQueueArguments ==
    [max_length |-> StreamMaxLength, overflow |-> "drop-head",
     ttl |-> StreamTtlMs]

\* The broker enqueues msg into a queue declared with args.
BrokerEnqueue(q, msg, args) ==
    IF Len(q) < args.max_length THEN Append(q, msg)
    ELSE IF args.overflow = "drop-head" THEN Append(Tail(q), msg)
    ELSE q

\* StreamService._ensure_queues_declared: the queue exists afterwards; a
\* queue that exists keeps its messages.
_ensure_queues_declared(camera_id) ==
    gw' = [gw EXCEPT !.declared = @ \cup {camera_id}]

\* The camera's producer publishes its next frame to the queue.
ProduceFrame(camera_id) ==
    /\ camera_id \in gw.declared
    /\ gw.produced[camera_id] < MaxFrames
    /\ gw' = [gw EXCEPT
                 !.produced[camera_id] = @ + 1,
                 !.frames[camera_id] =
                     BrokerEnqueue(@, gw.produced[camera_id] + 1,
                                   StreamQueueArguments)]

\* StreamService.stream_generator takes the next message off the queue.
ConsumeFrame(camera_id) ==
    /\ camera_id \in gw.declared
    /\ gw.frames[camera_id] # <<>>
    /\ gw' = [gw EXCEPT !.consumed[camera_id] = @ + 1,
                        !.frames[camera_id] = Tail(@)]

\* The oldest message outlives the queue's message TTL and is dropped.
ExpireFrame(camera_id) ==
    /\ StreamQueueArguments.ttl > 0
    /\ gw.frames[camera_id] # <<>>
    /\ gw' = [gw EXCEPT !.expired[camera_id] = @ + 1,
                        !.frames[camera_id] = Tail(@)]

(* One stream_generator call and the frame messages it reads. *)
\* The frame messages a producer can send, by what is wrong with them.
FrameKinds ==
    {"bad_utf8", "bad_json", "not_object", "no_frame", "empty_frame",
     "bad_base64", "no_soi", "no_eoi", "jpeg", "jpeg_min"}

\* The bytes the base64 text of a frame message stands for.
FrameBytes(kind) ==
    IF kind = "no_soi" THEN <<0, 216, 7, 255, 217>>
    ELSE IF kind = "no_eoi" THEN <<255, 216, 7, 255, 0>>
    ELSE IF kind = "jpeg" THEN <<255, 216, 7, 255, 217>>
    ELSE IF kind = "jpeg_min" THEN <<255, 216, 255, 217>>
    ELSE <<>>

\* A message body: is it UTF-8, what JSON it is, what its 'frame' member
\* is, whether that is base64, and the bytes it encodes.
FrameBody(kind) ==
    [utf8 |-> kind # "bad_utf8",
     json |-> IF kind \in {"bad_utf8", "bad_json"} THEN "invalid"
              ELSE IF kind = "not_object" THEN "array" ELSE "object",
     frame |-> IF kind = "no_frame" THEN "absent"
               ELSE IF kind = "empty_frame" THEN "empty" ELSE "text",
     b64 |-> kind # "bad_base64",
     bytes |-> FrameBytes(kind)]

\* bytes.startswith(prefix), bytes.endswith(suffix)
StartsWith(b, prefix) ==
    /\ Len(b) >= Len(prefix)
    /\ SubSeq(b, 1, Len(prefix)) = prefix
EndsWith(b, suffix) ==
    /\ Len(b) >= Len(suffix)
    /\ SubSeq(b, Len(b) - Len(suffix) + 1, Len(b)) = suffix

\* Mutant: one marker is enough.
MarkersOk_Either(b) ==
    StartsWith(b, <<255, 216>>) \/ EndsWith(b, <<255, 217>>)

\* frame_bytes.startswith(b'\xff\xd8') and frame_bytes.endswith(b'\xff\xd9')
MarkersOk(b) ==
    StartsWith(b, <<255, 216>>) /\ EndsWith(b, <<255, 217>>)

\* Mutant: a frame that cannot be decoded ends the generator.
process_frame_NoCatch(body) ==
    IF ~body.utf8 \/ body.json # "object" THEN "raise"
    ELSE IF body.frame \in {"absent", "empty"} THEN "continue"
    ELSE IF ~body.b64 THEN "raise"
    ELSE IF ~MarkersOk(body.bytes) THEN "continue"
    ELSE "yield"

\* The body of the loop of stream_generator, lines 105-120: what one
\* message leads to.  Every Exception is caught and logged ("except").
process_frame(body) ==
    IF ~body.utf8 THEN "except"              \* UnicodeDecodeError
    ELSE IF body.json = "invalid" THEN "except"   \* JSONDecodeError
    ELSE IF body.json # "object" THEN "except"    \* AttributeError on .get
    ELSE IF body.frame \in {"absent", "empty"} THEN "continue"
    ELSE IF ~body.b64 THEN "except"               \* binascii.Error
    ELSE IF ~MarkersOk(body.bytes) THEN "continue"
    ELSE "yield"

\* Mutant: the iterator is not a context manager; nothing cancels the
\* consumer when the generator is left.
iterator_exit_Leaks(g) == g

\* Leaving `async with queue.iterator()`: the consumer is cancelled.
iterator_exit(g) == [g EXCEPT !.sub = FALSE]

\* Leaving `async with message.process()` with an exception in flight: the
\* message in hand is rejected.
process_exit_raising(g) ==
    IF g.held = "none" THEN g
    ELSE [g EXCEPT !.held = "none", !.rejected = Append(@, g.held)]

\* The producer's next frame message arrives in the queue.
EnqueueFrame(kind) ==
    /\ gw.genq.sent < MaxStreamMsgs
    /\ gw' = [gw EXCEPT !.genq.sent = @ + 1,
                        !.genq.msgs = Append(@, kind),
                        !.genq.all = Append(@, kind)]

\* stream_generator up to `async with queue.iterator()`: the queues are
\* declared, the queue is looked up, the consumer is registered.  A broker
\* error before that leaves through `except Exception: raise`.
GeneratorStart(f) ==
    /\ gw.gen.pc = "idle"
    /\ gw' = IF f = "none"
             THEN [gw EXCEPT !.gen.pc = "waiting", !.gen.sub = TRUE]
             ELSE [gw EXCEPT !.gen.pc = "failed"]

\* Mutant: the newest message of the queue is handed over first.
iterator_next_Newest(q) ==
    [message |-> q[Len(q)], rest |-> SubSeq(q, 1, Len(q) - 1)]

\* `async for message in queue_iter`: the broker delivers the message at
\* the head of the queue.
iterator_next(q) == [message |-> Head(q), rest |-> Tail(q)]

\* The iterator hands over the next message of the queue.
GeneratorPull ==
    /\ gw.gen.pc = "waiting"
    /\ gw.genq.msgs # <<>>
    /\ gw' = [gw EXCEPT !.genq.msgs = iterator_next(gw.genq.msgs).rest,
                        !.gen.pc = "processing",
                        !.gen.held = iterator_next(gw.genq.msgs).message,
                        !.gen.pulled =
                            Append(@, iterator_next(gw.genq.msgs).message),
                        !.gen.late = @ \/ gw.gen.stop # "none"]

\* The loop body runs on the message in hand.
GeneratorHandle ==
    /\ gw.gen.pc = "processing"
    /\ LET kind == gw.gen.held
           step == process_frame(FrameBody(kind))
           g == [gw.gen EXCEPT !.done = Append(@, kind)]
       IN gw' = [gw EXCEPT !.gen =
             IF step = "yield"
             THEN [g EXCEPT !.pc = "yielded",
                            !.out = Append(@, FrameBody(kind).bytes)]
             ELSE IF step = "raise"
             THEN [iterator_exit(process_exit_raising(g)) EXCEPT !.pc = "failed"]
             ELSE \* message.process() is left normally: ack
                  [g EXCEPT !.pc = "waiting", !.held = "none",
                            !.acked = Append(@, kind)]]

\* The consumer of the stream asks for the next chunk: the generator
\* resumes after the yield and leaves message.process() normally.
GeneratorResume ==
    /\ gw.gen.pc = "yielded"
    /\ gw' = [gw EXCEPT !.gen.pc = "waiting", !.gen.held = "none",
                        !.gen.acked = Append(@, gw.gen.held)]

\* The task running the generator is cancelled while the generator waits
\* for a message or settles one: CancelledError unwinds both context
\* managers, `except asyncio.CancelledError: raise`, finally.
GeneratorCancel ==
    /\ gw.gen.pc \in {"waiting", "processing"}
    /\ gw' = [gw EXCEPT !.gen =
                 [iterator_exit(process_exit_raising(gw.gen))
                     EXCEPT !.pc = "cancelled", !.stop = "cancelled"]]

\* The consumer of the stream goes away while the generator is suspended
\* at the yield: nothing runs in the generator yet.
ConsumerDetach ==
    /\ gw.gen.pc = "yielded"
    /\ gw' = [gw EXCEPT !.gen.pc = "abandoned", !.gen.stop = "detached"]

\* The event loop closes the abandoned generator (aclose): GeneratorExit is
\* raised at the yield and unwinds both context managers, finally.
GeneratorFinalize ==
    /\ gw.gen.pc = "abandoned"
    /\ gw' = [gw EXCEPT !.gen =
                 [iterator_exit(process_exit_raising(gw.gen))
                     EXCEPT !.pc = "closed"]]

(* Requests to the gateway: services, declarations, info and status. *)
\* The declare of _ensure_queues_declared that the broker refuses, if any.
DeclareFaults == {"none", "declare_info", "declare_stream"}

\* Mutant: the service does not remember what it declared.
ensure_queues_declared_NoCache(cache, camera_id, f) ==
    IF f = "declare_info"
    THEN [cache |-> cache, calls |-> {"info"}, made |-> {}, raised |-> TRUE]
    ELSE IF f = "declare_stream"
    THEN [cache |-> cache, calls |-> {"info", "stream"}, made |-> {"info"},
          raised |-> TRUE]
    ELSE [cache |-> cache, calls |-> {"info", "stream"},
          made |-> {"info", "stream"}, raised |-> FALSE]

\* Mutant: the id is recorded although the frame-queue declare raised.
ensure_queues_declared_RecordsEarly(cache, camera_id, f) ==
    IF camera_id \in cache
    THEN [cache |-> cache, calls |-> {}, made |-> {}, raised |-> FALSE]
    ELSE IF f = "declare_info"
    THEN [cache |-> cache, calls |-> {"info"}, made |-> {}, raised |-> TRUE]
    ELSE IF f = "declare_stream"
    THEN [cache |-> cache \cup {camera_id}, calls |-> {"info", "stream"},
          made |-> {"info"}, raised |-> TRUE]
    ELSE [cache |-> cache \cup {camera_id}, calls |-> {"info", "stream"},
          made |-> {"info", "stream"}, raised |-> FALSE]

\* StreamService._ensure_queues_declared on a service whose
\* _declared_queues is cache: the cache afterwards, the declare operations
\* the call issued, the queues the broker declared, and whether the call
\* raised.  Nothing is caught, and the id is recorded only after both
\* declares.
ensure_queues_declared(cache, camera_id, f) ==
    IF camera_id \in cache
    THEN [cache |-> cache, calls |-> {}, made |-> {}, raised |-> FALSE]
    ELSE IF f = "declare_info"
    THEN [cache |-> cache, calls |-> {"info"}, made |-> {}, raised |-> TRUE]
    ELSE IF f = "declare_stream"
    THEN [cache |-> cache, calls |-> {"info", "stream"}, made |-> {"info"},
          raised |-> TRUE]
    ELSE [cache |-> cache \cup {camera_id}, calls |-> {"info", "stream"},
          made |-> {"info", "stream"}, raised |-> FALSE]

\* The service a request gets from get_stream_service: a new StreamService,
\* whose _declared_queues is empty.
get_stream_service == {}

\* What the broker holds after the declares e of camera_id's queues.
BrokerDeclares(g, camera_id, e) ==
    [g EXCEPT
        !.declares[camera_id] =
            [info |-> @.info + (IF "info" \in e.made THEN 1 ELSE 0),
             stream |-> @.stream + (IF "stream" \in e.made THEN 1 ELSE 0)],
        !.declared = IF "stream" \in e.made THEN @ \cup {camera_id} ELSE @,
        !.infoDeclared = IF "info" \in e.made THEN @ \cup {camera_id} ELSE @]

\* What `await self.channel.get(queue_name, timeout=3)` does: the channel
\* class has no such method; a get in the manner of Queue.get raises
\* QueueEmpty on an empty queue, or returns None if told not to fail.
ChannelGet == {"no_method", "raises_if_empty", "none_if_empty"}

\* StreamService.get_stream_info: what it returns ("raise" when the
\* exception leaves the method) and whether it took the metadata message.
get_stream_info(cache, camera_id, f, lib, queued) ==
    LET e == ensure_queues_declared(cache, camera_id, f) IN
    IF e.raised THEN [ens |-> e, ret |-> "raise", took |-> FALSE]
    ELSE IF lib = "no_method" THEN [ens |-> e, ret |-> "None", took |-> FALSE]
    ELSE IF queued = 0
    THEN [ens |-> e,
          ret |-> IF lib = "none_if_empty" THEN "inactive" ELSE "None",
          took |-> FALSE]
    ELSE [ens |-> e, ret |-> "active", took |-> TRUE]

\* GET /cameras/{camera_id}/info
get_camera_info(ret) ==
    IF ret = "raise" THEN 500
    ELSE IF ret = "None" THEN 404
    ELSE 200

\* What `await queue.info()` does: the queue class has no such method; an
\* info in the manner of a passive declare reports the message count.
QueueInfo == {"no_method", "message_count"}

\* StreamService.check_camera_active: every exception gives False.
check_camera_active(cache, camera_id, f, lib, queued) ==
    LET e == ensure_queues_declared(cache, camera_id, f) IN
    IF e.raised THEN [ens |-> e, ret |-> FALSE]
    ELSE IF lib = "no_method" THEN [ens |-> e, ret |-> FALSE]
    ELSE [ens |-> e, ret |-> queued > 0]

\* A request may declare while fewer than MaxDeclares declarations of the
\* camera's queues were made.
DeclareRoom(camera_id) == gw.declares[camera_id].info < MaxDeclares

\* _ensure_queues_declared(camera_id) called on one service that is kept.
ServiceEnsure(camera_id, f) ==
    LET e == ensure_queues_declared(gw.svc, camera_id, f) IN
    /\ Len(gw.hist[camera_id]) < MaxEnsureCalls
    /\ gw' = [BrokerDeclares(gw, camera_id, e) EXCEPT
                 !.svc = e.cache,
                 !.hist[camera_id] =
                     Append(@, IF e.raised THEN "raised" ELSE "ok"),
                 !.call = [op |-> "ensure", camera |-> camera_id,
                           fault |-> f, lib |-> "none",
                           calls |-> e.calls, raised |-> e.raised,
                           ret |-> "None", http |-> 0,
                           queued |-> 0,
                           nth |-> Len(gw.hist[camera_id]) + 1]]

\* The gateway call before this one: what it was and what it returned.
PreviousCall ==
    IF gw.call.op = "init"
    THEN [op |-> "init", camera |-> "none", ret |-> "none"]
    ELSE [op |-> gw.call.op, camera |-> gw.call.camera, ret |-> gw.call.ret]

\* GET /cameras/{camera_id}/info on a service of its own.
InfoRequest(camera_id, f, lib) ==
    LET r == get_stream_info(get_stream_service, camera_id, f, lib,
                             gw.infoq[camera_id]) IN
    /\ DeclareRoom(camera_id)
    /\ gw' = [BrokerDeclares(gw, camera_id, r.ens) EXCEPT
                 !.infoq[camera_id] = IF r.took THEN @ - 1 ELSE @,
                 !.call = [op |-> "info", camera |-> camera_id,
                           fault |-> f, lib |-> lib,
                           calls |-> r.ens.calls, raised |-> r.ret = "raise",
                           ret |-> r.ret, http |-> get_camera_info(r.ret),
                           queued |-> gw.infoq[camera_id],
                           left |-> gw.infoq[camera_id]
                                      - (IF r.took THEN 1 ELSE 0),
                           before |-> PreviousCall,
                           nth |-> 0]]

\* GET /cameras/{camera_id}/status on a service of its own.
StatusRequest(camera_id, f, lib) ==
    LET r == check_camera_active(get_stream_service, camera_id, f, lib,
                                 Len(gw.frames[camera_id])) IN
    /\ DeclareRoom(camera_id)
    /\ gw' = [BrokerDeclares(gw, camera_id, r.ens) EXCEPT
                 !.call = [op |-> "status", camera |-> camera_id,
                           fault |-> f, lib |-> lib,
                           calls |-> r.ens.calls, raised |-> FALSE,
                           ret |-> IF r.ret THEN "True" ELSE "False",
                           http |-> 200,
                           queued |-> Len(gw.frames[camera_id]),
                           nth |-> 0]]

\* GET /cameras/{camera_id}/stream on a service of its own: the generator
\* of the response begins with _ensure_queues_declared.
StreamRequest(camera_id, f) ==
    LET e == ensure_queues_declared(get_stream_service, camera_id, f) IN
    /\ DeclareRoom(camera_id)
    /\ gw' = [BrokerDeclares(gw, camera_id, e) EXCEPT
                 !.call = [op |-> "stream", camera |-> camera_id,
                           fault |-> f, lib |-> "none",
                           calls |-> e.calls, raised |-> e.raised,
                           ret |-> "None", http |-> 200,
                           queued |-> Len(gw.frames[camera_id]),
                           nth |-> 0]]

\* The camera's producer publishes its metadata to the info queue.
PublishInfo(camera_id) ==
    /\ camera_id \in gw.infoDeclared
    /\ gw.infoq[camera_id] = 0
    /\ gw' = [gw EXCEPT !.infoq[camera_id] = 1]

StreamInit ==
    gw = [declared |-> {},
          frames |-> [c \in StreamCameras |-> <<>>],
          produced |-> [c \in StreamCameras |-> 0],
          consumed |-> [c \in StreamCameras |-> 0],
          expired |-> [c \in StreamCameras |-> 0],
          genq |-> [sent |-> 0, msgs |-> <<>>, all |-> <<>>],
          getconn |-> [k \in Callers |-> [pc |-> "idle", got |-> NoConn]],
          workers |-> [slots |-> [i \in WorkerSlots |->
                                     [name |-> WorkerNames[i],
                                      state |-> "running", gen |-> 0]],
                       monitor |-> "running", monitorCancelled |-> FALSE],
          svc |-> {},
          hist |-> [c \in StreamCameras |-> <<>>],
          declares |-> [c \in StreamCameras |-> [info |-> 0, stream |-> 0]],
          infoDeclared |-> {},
          infoq |-> [c \in StreamCameras |-> 0],
          call |-> [op |-> "init"],
          gen |-> [pc |-> "idle", sub |-> FALSE, held |-> "none",
                   stop |-> "none", late |-> FALSE,
                   pulled |-> <<>>, done |-> <<>>, out |-> <<>>,
                   acked |-> <<>>, rejected |-> <<>>]]

StreamFrame == UNCHANGED <<dvars, mvars, avars, conns, exch>>
EnsureQueuesDeclaredAny ==
    StreamFrame /\ \E c \in StreamCameras : _ensure_queues_declared(c)
ProduceFrameAny == StreamFrame /\ \E c \in StreamCameras : ProduceFrame(c)
ConsumeFrameAny == StreamFrame /\ \E c \in StreamCameras : ConsumeFrame(c)
ExpireFrameAny == StreamFrame /\ \E c \in StreamCameras : ExpireFrame(c)

StreamNext ==
    \/ EnsureQueuesDeclaredAny \/ ProduceFrameAny
    \/ ConsumeFrameAny \/ ExpireFrameAny

EnqueueFrameAny == StreamFrame /\ \E kind \in FrameKinds : EnqueueFrame(kind)
GeneratorStartAny == StreamFrame /\ \E f \in {"none", "declare"} : GeneratorStart(f)
GeneratorPullAny == StreamFrame /\ GeneratorPull
GeneratorHandleAny == StreamFrame /\ GeneratorHandle
GeneratorResumeAny == StreamFrame /\ GeneratorResume
GeneratorCancelAny == StreamFrame /\ GeneratorCancel
ConsumerDetachAny == StreamFrame /\ ConsumerDetach
GeneratorFinalizeAny == StreamFrame /\ GeneratorFinalize

\* One stream_generator call, its producer and its consumer.
GeneratorNext ==
    \/ EnqueueFrameAny \/ GeneratorStartAny \/ GeneratorPullAny
    \/ GeneratorHandleAny \/ GeneratorResumeAny \/ GeneratorCancelAny
    \/ ConsumerDetachAny \/ GeneratorFinalizeAny

ServiceEnsureAny ==
    StreamFrame /\ \E c \in StreamCameras, f \in DeclareFaults :
        ServiceEnsure(c, f)
InfoRequestAny ==
    StreamFrame /\ \E c \in StreamCameras, f \in DeclareFaults,
                      lib \in ChannelGet : InfoRequest(c, f, lib)
StatusRequestAny ==
    StreamFrame /\ \E c \in StreamCameras, f \in DeclareFaults,
                      lib \in QueueInfo : StatusRequest(c, f, lib)
StreamRequestAny ==
    StreamFrame /\ \E c \in StreamCameras, f \in DeclareFaults :
        StreamRequest(c, f)
PublishInfoAny == StreamFrame /\ \E c \in StreamCameras : PublishInfo(c)

\* Requests to the gateway, each on a service of its own, and the
\* metadata producer.
GatewayNext ==
    \/ InfoRequestAny \/ StatusRequestAny
    \/ StreamRequestAny \/ PublishInfoAny

\* One service that is kept and called again, and the metadata producer.
ServiceNext == ServiceEnsureAny \/ PublishInfoAny

\* Status requests and the frame producer.
StatusNext == StatusRequestAny \/ ProduceFrameAny

(* ----------------- camera API and lifecycle publishers ------------------ *)
\* Camera ids a direct caller of the publishers passes.
CallCameraIds == {1}
Actions == {"created", "removed"}

\* app/api/v1/cameras.py
_build_camera_created_message(camera_id) ==
    [action |-> "created", camera_id |-> camera_id]
_build_camera_removed_message(camera_id) ==
    [action |-> "removed", camera_id |-> camera_id]

Raise(why) == [raised |-> TRUE, ret |-> why, sent |-> {}]

\* Mutant: the lifecycle exchange is declared as a topic exchange.
publish_camera_event_Topic(args, b, f) ==
    IF Len(args) # 2
    THEN Raise("TypeError")
    ELSE IF ~b.up \/ f = "connect" THEN Raise("AMQPConnectionError")
    ELSE IF f \in {"channel", "declare"} THEN Raise("ChannelError")
    ELSE IF f = "publish" THEN Raise("PublishError")
    ELSE [raised |-> FALSE, ret |-> "None",
          sent |-> {[exchange |-> "camera.events", type |-> "topic",
                     routing_key |-> "", persistent |-> TRUE,
                     action |-> args[1], camera_id |-> args[2].camera_id]}]

\* app/services/rabbitmq_service.py: publish_camera_event(event_type, camera),
\* called with the positional arguments args.  Nothing is caught: a failing
\* connect_robust, channel, declare_exchange or publish propagates.
publish_camera_event(args, b, f) ==
    IF Len(args) # 2
    THEN Raise("TypeError")
    ELSE IF ~b.up \/ f = "connect" THEN Raise("AMQPConnectionError")
    ELSE IF f \in {"channel", "declare"} THEN Raise("ChannelError")
    ELSE IF f = "publish" THEN Raise("PublishError")
    ELSE [raised |-> FALSE, ret |-> "None",
          sent |-> {[exchange |-> "camera.events", type |-> "fanout",
                     routing_key |-> "", persistent |-> TRUE,
                     action |-> args[1], camera_id |-> args[2].camera_id]}]

\* app/workers/rabbitmq_utils.py: publish_camera_event(event_type, camera).
utils_publish_camera_event(args, b, f) ==
    IF Len(args) # 2
    THEN Raise("TypeError")
    ELSE IF ~b.up \/ f = "connect" THEN Raise("AMQPConnectionError")
    ELSE IF f \in {"channel", "declare"} THEN Raise("ChannelError")
    ELSE IF f = "publish" THEN Raise("PublishError")
    ELSE [raised |-> FALSE, ret |-> "None",
          sent |-> {[exchange |-> "smart_camera_exchange", type |-> "topic",
                     routing_key |-> <<"camera", args[1]>>, persistent |-> FALSE,
                     action |-> args[1], camera_id |-> args[2].camera_id]}]

ApiFaults == {"none", "connect", "declare", "publish"}

\* POST /cameras: the row is committed, then the publisher is scheduled
\* with the payload as its only argument.
create_camera ==
    /\ nextId <= MaxCameras
    /\ cameras' = cameras \cup {nextId}
    /\ nextId' = nextId + 1
    /\ tasks' = tasks \cup {<<_build_camera_created_message(nextId)>>}
    /\ UNCHANGED <<taskLog, events, broker, last, exch>>

\* DELETE /cameras/{camera_id} of a stored camera (404 otherwise).
delete_camera(camera_id) ==
    /\ camera_id \in cameras
    /\ cameras' = cameras \ {camera_id}
    /\ tasks' = tasks \cup {<<_build_camera_removed_message(camera_id)>>}
    /\ UNCHANGED <<nextId, taskLog, events, broker, last, exch>>

\* What running the scheduled call does outside the store.
TaskEffects(args, f) ==
    LET r == publish_camera_event(args, broker, f) IN
    /\ args \in tasks
    /\ tasks' = tasks \ {args}
    /\ taskLog' = taskLog \cup {[args |-> args, raised |-> r.raised,
                                 clean |-> broker.up /\ f = "none"]}
    /\ events' = events \cup r.sent
    /\ exch' = Routed(exch, r.sent)
    /\ UNCHANGED <<nextId, broker, last>>

\* Mutant: a task that raises undoes the request's change to the store.
RunBackgroundTask_Rollback(args, f) ==
    /\ TaskEffects(args, f)
    /\ cameras' = IF publish_camera_event(args, broker, f).raised
                  THEN IF args[1].action = "created"
                       THEN cameras \ {args[1].camera_id}
                       ELSE cameras \cup {args[1].camera_id}
                  ELSE cameras

\* Starlette runs a scheduled background task after the response was sent.
RunBackgroundTask(args, f) ==
    /\ TaskEffects(args, f)
    /\ cameras' = cameras

\* A caller invokes a publisher with both arguments.
\* The log also keeps what was sent, which queues were bound to the lifecycle
\* exchange when the call was made, and how many messages each held.
CallPublisher(op, r) ==
    /\ last' = [op |-> op, raised |-> r.raised, ret |-> r.ret, up |-> broker.up,
                sent |-> r.sent,
                bound |-> {b.queue : b \in exch.bindings},
                before |-> [q \in LifecycleQueues |-> Len(exch.inbox[q])]]
    /\ events' = events \cup r.sent
    /\ exch' = Routed(exch, r.sent)
    /\ UNCHANGED <<cameras, nextId, tasks, taskLog, broker>>

ApiFrame == UNCHANGED <<dvars, mgr, conns, gw>>
CreateCamera == ApiFrame /\ create_camera
DeleteCamera == ApiFrame /\ \E c \in 1..MaxCameras : delete_camera(c)
RunTask == ApiFrame /\ \E args \in tasks, f \in ApiFaults : RunBackgroundTask(args, f)
CallPublishCameraEvent ==
    ApiFrame /\ InboxRoom /\ \E e \in Actions, c \in CallCameraIds, f \in ApiFaults :
        CallPublisher("publish_camera_event",
                      publish_camera_event(<<e, [camera_id |-> c]>>, broker, f))
CallUtilsPublishCameraEvent ==
    ApiFrame /\ \E e \in Actions, c \in CallCameraIds, f \in ApiFaults :
        CallPublisher("utils_publish_camera_event",
                      utils_publish_camera_event(<<e, [camera_id |-> c]>>, broker, f))
ApiBrokerDown ==
    ApiFrame /\ BrokerDown /\ UNCHANGED <<last, cameras, nextId, tasks, taskLog, events, exch>>
ApiBrokerUp ==
    ApiFrame /\ BrokerUp /\ UNCHANGED <<last, cameras, nextId, tasks, taskLog, events, exch>>

ApiNext ==
    \/ CreateCamera \/ DeleteCamera \/ RunTask
    \/ ApiBrokerDown \/ ApiBrokerUp

ExchFrame ==
    UNCHANGED <<dvars, mvars, avars, conns, gw>>
BindQueueAny ==
    ExchFrame /\ \E q \in LifecycleQueues, key \in BindingKeys : BindQueue(q, key)
UnbindQueueAny ==
    ExchFrame /\ \E q \in LifecycleQueues, key \in BindingKeys : UnbindQueue(q, key)

SetupQueuesAny ==
    ExchFrame /\ \E sd \in Sides : \E f \in 0..Len(SetupOf(sd)) :
        SetupQueues(sd, f)
RouteTelemetryAny ==
    ExchFrame /\ \E sd \in Sides, ty \in TelemetryTypes,
                    c \in TelemetryCameraIds : RouteTelemetry(sd, ty, c)

\* The telemetry exchanges: their setup and what is published to them.
TopologyNext == SetupQueuesAny \/ RouteTelemetryAny

PublisherNext ==
    \/ CallPublishCameraEvent \/ CallUtilsPublishCameraEvent
    \/ ApiBrokerDown \/ ApiBrokerUp

\* The lifecycle publisher and the consumers that bind and unbind queues.
FanoutNext ==
    \/ CallPublishCameraEvent
    \/ BindQueueAny \/ UnbindQueueAny
    \/ ApiBrokerDown \/ ApiBrokerUp

(* ------------------------------ dispatcher ----------------------------- *)
DispatchInit ==
    /\ msgs = <<>>
    /\ ready = [q \in Queues |-> <<>>]

ApiInit ==
    /\ cameras = {}
    /\ nextId = 1
    /\ tasks = {}
    /\ taskLog = {}
    /\ events = {}

Init == DispatchInit /\ ManagerInit /\ ApiInit /\ ConnsInit /\ ExchInit /\ StreamInit

DispatchFrame == UNCHANGED <<mvars, avars, xvars>>
PublishAny ==
    DispatchFrame /\ \E q \in Queues, b \in Bodies : PublishTelemetry(q, b)
DeliverAny == DispatchFrame /\ \E q \in Queues : Deliver(q)
ProcessAny ==
    DispatchFrame /\ \E i \in 1..MaxMsgs, hr \in BOOLEAN : Process(i, hr)

DispatchNext == PublishAny \/ DeliverAny \/ ProcessAny

CancelConsumerAny ==
    DispatchFrame /\ \E reached \in [1..MaxMsgs -> BOOLEAN] :
        CancelConsumer(reached)

\* The dispatcher with its consumer task cancelled and started again.
ShutdownNext == PublishAny \/ DeliverAny \/ ProcessAny \/ CancelConsumerAny

SpecDispatch == Init /\ [][DispatchNext]_vars
SpecManager == Init /\ [][ManagerNext]_vars
SpecApi == Init /\ [][ApiNext]_vars
SpecPublisher == Init /\ [][PublisherNext]_vars
SpecFanout == Init /\ [][FanoutNext]_vars
SpecProcess == Init /\ [][ProcessNext]_vars
SpecStream == Init /\ [][StreamNext]_vars
SpecGenerator == Init /\ [][GeneratorNext]_vars
SpecSharedConn == Init /\ [][SharedConnNext]_vars
SpecRos2 == Init /\ [][Ros2Next]_vars
SpecWorkers == Init /\ [][WorkersNext]_vars
SpecShutdown == Init /\ [][ShutdownNext]_vars
SpecTopology == Init /\ [][TopologyNext]_vars
SpecGateway == Init /\ [][GatewayNext]_vars
SpecService == Init /\ [][ServiceNext]_vars
SpecStatus == Init /\ [][StatusNext]_vars
\* The event loop runs a generator that can run, and closes an abandoned one.
SpecGeneratorFair ==
    /\ SpecGenerator
    /\ WF_vars(GeneratorFinalizeAny)

(* ----------------------- dispatcher claims ----------------------------- *)
Dispatched(i) == msgs[i].deliveries >= 1 /\ msgs[i].st # "unacked"
Removed(i) == msgs[i].st \in {"acked", "rejected"}
InReady(i) == \E k \in 1..Len(ready[msgs[i].queue]) : ready[msgs[i].queue][k] = i
Malformed(i) == msgs[i].body \in {"bad_utf8", "bad_json"}
LacksCameraId(i) == msgs[i].body \in {"no_camera", "no_camera_bad_ts"}

\* C1 (as claimed): every failed handling of a decoded, validated message is
\* answered by a negative acknowledgement with requeue, so a message whose
\* last handling failed is back in its queue (or delivered again), never
\* removed.
C1_HandlerFailureRequeues ==
    \A i \in 1..Len(msgs) :
        (msgs[i].body = "ok" /\ Dispatched(i)) =>
            /\ msgs[i].requeues = msgs[i].raises
            /\ (msgs[i].lastFailed => ~Removed(i))

\* C2 (as claimed): a dispatched message whose body is not valid JSON has
\* been acknowledged (not rejected), is gone from its queue, was delivered
\* once only, and no handler was invoked for it.
C2_MalformedAckedAndDropped ==
    \A i \in 1..Len(msgs) :
        (Malformed(i) /\ Dispatched(i)) =>
            /\ msgs[i].st = "acked"
            /\ msgs[i].acks = 1 /\ msgs[i].rejects = 0 /\ msgs[i].requeues = 0
            /\ msgs[i].deliveries = 1
            /\ msgs[i].handlerCalls = 0
            /\ ~InReady(i)

\* C3 (as claimed, in the form a finite run refutes): a message whose
\* handler failed on its first invocation, and on no later one, is not
\* removed from its queue before the handler has observed it twice.
C3_FailOnceObservedTwice ==
    \A i \in 1..Len(msgs) :
        (msgs[i].body = "ok" /\ msgs[i].firstFailed /\ msgs[i].raises = 1
            /\ Removed(i)) =>
            msgs[i].handlerCalls >= 2

\* C4: a message whose handler completed without error is acknowledged
\* exactly once, is never rejected or requeued by that handling, is gone
\* from its queue and is not delivered again.
C4_SuccessAckedOnce ==
    \A i \in 1..Len(msgs) :
        (msgs[i].handlerCalls >= 1 /\ ~msgs[i].lastFailed /\ Dispatched(i)) =>
            /\ msgs[i].st = "acked"
            /\ msgs[i].acks = 1 /\ msgs[i].rejects = 0
            /\ msgs[i].deliveries = msgs[i].handlerCalls
            /\ ~InReady(i)

\* Both dispatchers have acknowledged a successfully handled message.
C4_Witness ==
    /\ \E i \in 1..Len(msgs) :
          /\ msgs[i].queue \in WorkerQueues /\ msgs[i].st = "acked"
          /\ msgs[i].handlerCalls = 1 /\ ~msgs[i].lastFailed
    /\ \E j \in 1..Len(msgs) :
          /\ msgs[j].queue \in CoreQueues /\ msgs[j].st = "acked"
          /\ msgs[j].handlerCalls = 1 /\ ~msgs[j].lastFailed

Count(seq, S) == Cardinality({k \in 1..Len(seq) : seq[k] \in S})
PublishSteps == {"publish_ok", "publish_fail"}
PublishCall == last.op = "publish_message"

C7_PublisherNeverRaises ==
    last.op \in {"publish_camera_event", "utils_publish_camera_event"} =>
        ~last.raised

\* C8 (as claimed, in the form a finite run refutes): once the background
\* task scheduled for a camera creation or deletion has run with the broker
\* reachable and no operation failing, the fan-out lifecycle exchange has
\* been handed an event with that action and camera_id.
C8_LifecycleEventPublished ==
    \A r \in taskLog :
        r.clean =>
            \E e \in events :
                /\ e.exchange = "camera.events" /\ e.type = "fanout"
                /\ e.action = r.args[1].action
                /\ e.camera_id = r.args[1].camera_id

\* Cameras for which the API has scheduled a "removed" event.
RemovedIds ==
    {t[1].camera_id : t \in {u \in tasks : u[1].action = "removed"}}
    \cup {r.args[1].camera_id : r \in {x \in taskLog : x.args[1].action = "removed"}}

\* C9: the stored cameras are exactly those the API created and did not
\* delete, whichever background publish tasks are pending or have run, and
\* whether they succeeded, failed or raised.
C9_PublishFailureKeepsStore ==
    cameras = (1..(nextId - 1)) \ RemovedIds

\* The publish task of a creation and that of a deletion both raised; the
\* created camera is stored and the deleted one is gone.
C9_Witness ==
    /\ \E r \in taskLog :
          /\ r.raised /\ r.args[1].action = "created"
          /\ r.args[1].camera_id \in cameras
    /\ \E r \in taskLog :
          /\ r.raised /\ r.args[1].action = "removed"
          /\ r.args[1].camera_id \notin cameras

\* C10 (as claimed): connect() called while the manager is connected
\* returns success and changes neither the manager (connection, channel,
\* exchange, cached queues) nor the set of connections open at the broker.
C10_ConnectWhileConnectedIsNoop ==
    [][(ConnectAny /\ mgr.is_connected) =>
          (last'.ret = "True" /\ mgr' = mgr /\ broker' = broker)]_vars

(* ------------------- reconnection policy claims ------------------------ *)
\* The last completed call was a call of the connection manager.
ManagerCall ==
    last.op \in {"connect", "disconnect", "reconnect", "publish_message",
                 "declare_queue", "consume_queue", "health_check"}

\* C11: once 5 consecutive reconnect() calls have failed since the last
\* successful connection, the next reconnect() call returns failure at once:
\* it closes nothing, waits for nothing, opens nothing, and leaves the
\* manager and the broker as they were.
C11_SixthReconnectRefused ==
    (last.op = "reconnect" /\ last.entryFailed = MaxReconnectAttempts) =>
        /\ last.ret = "False"
        /\ last.trace = <<"reconnect">>
        /\ last.sleeps = <<>>
        /\ ~last.changed

\* A reconnect() call was refused after five failures.
C11_Witness ==
    /\ last.op = "reconnect"
    /\ last.entryFailed = MaxReconnectAttempts
    /\ last.ret = "False"
    /\ last.trace = <<"reconnect">>

C13_CounterResetOnlyBySuccessfulConnect ==
    ManagerCall =>
        /\ mgr._reconnect_attempts = last.failedReconnects
        /\ mgr.is_connected => mgr._reconnect_attempts = 0
        /\ last.op = "connect" =>
              mgr._reconnect_attempts =
                  (IF last.ret = "True" THEN 0 ELSE last.entryAttempts)
        /\ (last.op = "reconnect" /\ last.entryAttempts < MaxReconnectAttempts) =>
              mgr._reconnect_attempts =
                  (IF last.ret = "True" THEN 0 ELSE last.entryAttempts + 1)
        /\ last.op \in {"publish_message", "consume_queue"} =>
              mgr._reconnect_attempts =
                  (IF Count(last.trace, {"connect"}) = 0 THEN last.entryAttempts
                   ELSE IF mgr.connection # NoConn /\ mgr.exchange = mgr.connection
                        THEN 0
                        ELSE last.entryAttempts + 1)
        /\ last.op \in {"disconnect", "declare_queue", "health_check"} =>
              mgr._reconnect_attempts = last.entryAttempts

\* A direct connect() succeeded after four failed reconnect attempts.
C13_Witness ==
    /\ last.op = "connect"
    /\ last.ret = "True"
    /\ last.entryAttempts = 4
    /\ mgr._reconnect_attempts = 0

\* The call began with the reconnect attempts exhausted.
EnteredExhausted == ManagerCall /\ last.entryAttempts = MaxReconnectAttempts

\* C14: once the reconnect attempts are exhausted the manager is not
\* connected, and every reconnect(), publish_message() and consume_queue()
\* call returns False without contacting the broker and without changing
\* anything; the attempts stay exhausted through every call except a
\* successful explicit connect(), which leaves the manager connected with
\* the counter at zero.
C14_ExhaustedIsTerminalUntilConnect ==
    /\ mgr._reconnect_attempts = MaxReconnectAttempts => ~mgr.is_connected
    /\ EnteredExhausted =>
          /\ ~last.entryConnected
          /\ last.op \in {"reconnect", "publish_message", "consume_queue"} =>
                /\ last.ret = "False"
                /\ ~last.raised
                /\ last.trace = <<"reconnect">>
                /\ last.sleeps = <<>>
                /\ ~last.changed
          /\ mgr._reconnect_attempts # MaxReconnectAttempts =>
                /\ last.op = "connect"
                /\ last.ret = "True"
                /\ mgr.is_connected
                /\ mgr._reconnect_attempts = 0

\* A consume_queue() call was refused in the exhausted state.
C14_Witness ==
    /\ last.op = "consume_queue"
    /\ last.entryAttempts = MaxReconnectAttempts
    /\ last.ret = "False"
    /\ last.trace = <<"reconnect">>
    /\ mgr._reconnect_attempts = MaxReconnectAttempts

\* C15: after disconnect() the manager holds no connection, no channel, no
\* exchange and no cached queue, and is not connected, whatever state it was
\* called in and also when closing the connection raised.
C15_DisconnectClearsEverything ==
    last.op = "disconnect" =>
        /\ mgr.connection = NoConn
        /\ mgr.channel = NoConn
        /\ mgr.exchange = NoConn
        /\ mgr.queues = {}
        /\ ~mgr.is_connected
        /\ ~last.raised

\* disconnect() was called on a connected manager with declared queues and
\* closing the connection raised.
C15_Witness ==
    /\ last.op = "disconnect"
    /\ last.entryConnected
    /\ last.trace = <<"disconnect", "close_raises">>
    /\ mgr.connection = NoConn
    /\ mgr.queues = {}

(* --------------------------- health check ------------------------------ *)
HealthCall == last.op = "health_check"

\* C16 (as claimed): health_check() returns true exactly when the broker
\* connection is open at the time of the call, and never raises.
C16_TrueIffConnectionOpen ==
    HealthCall =>
        /\ ~last.raised
        /\ (last.ret = "True") = last.entryOpen

\* C16 (amended): health_check() never raises and returns a boolean.  It
\* returns true only if the connection is open, and exactly when the manager
\* is marked connected, holds a connection that is not closed, and the
\* declare-and-delete probe succeeds.  It returns false without probing
\* whenever the manager is marked disconnected or the connection is closed;
\* a failed probe marks the manager disconnected.
C16_TrueIffConnectedOpenAndProbed ==
    HealthCall =>
        /\ ~last.raised
        /\ last.ret \in {"True", "False"}
        /\ last.ret = "True" => (last.entryOpen /\ last.entryConnected)
        /\ (last.ret = "True") = (last.trace = <<"probe_ok">>)
        /\ (last.trace # <<>>) =
              (last.entryConnected /\ mgr.connection # NoConn
               /\ mgr.connection \in broker.open)
        /\ last.trace = <<"probe_fail">> => ~mgr.is_connected
        /\ last.trace \in {<<>>, <<"probe_ok">>, <<"probe_fail">>}

\* health_check() answered false although the connection was open and the
\* broker reachable.
C16_Witness ==
    /\ HealthCall
    /\ last.entryOpen
    /\ ~last.entryConnected
    /\ last.ret = "False"

(* ------------------------ connection ownership ------------------------- *)
\* C17 (as claimed): at every moment the process has at most one live
\* broker connection, and neither the telemetry consumer nor the lifecycle
\* publisher holds a connection it opened itself.
C17_SingleConnectionOwnedByManager ==
    /\ Cardinality(broker.open) <= 1
    /\ ~HeldOpen("consumer")
    /\ ~HeldOpen("publisher")

(* --------------------------- persistence ------------------------------- *)
\* C18 (as claimed): every message published on a reliable path (lifecycle
\* events, topic-exchange messages) is marked persistent.
C18_ReliableMessagesPersistent ==
    \A e \in events : e.persistent

(* ------------------------------ fan-out -------------------------------- *)
LifecyclePublished ==
    /\ last.op = "publish_camera_event"
    /\ ~last.raised

\* C19: when a payload is published to the lifecycle exchange, every queue
\* bound to the exchange at that time, whatever key it was bound with,
\* receives exactly one copy of it, equal to what was sent.
C19_EveryBoundQueueGetsACopy ==
    LifecyclePublished =>
        /\ Cardinality(last.sent) = 1
        /\ \A e \in last.sent :
              /\ e.exchange = LifecycleExchange
              /\ \A q \in last.bound :
                    /\ Len(exch.inbox[q]) = last.before[q] + 1
                    /\ exch.inbox[q][Len(exch.inbox[q])] = Payload(e)

\* An event was published while both queues were bound, one of them with a
\* key that differs from the routing key, and both hold the copy.
C19_Witness ==
    /\ LifecyclePublished
    /\ last.bound = LifecycleQueues
    /\ \E b \in exch.bindings : b.key # ""
    /\ \A b \in exch.bindings : b.key # "" \/ b.queue = "recorder"
    /\ \A q \in LifecycleQueues :
          /\ Len(exch.inbox[q]) = 1
          /\ exch.inbox[q][1] \in {Payload(e) : e \in last.sent}

(* --------------------------- frame queues ------------------------------ *)
\* The n most recent of the frames published so far for camera c, oldest first.
MostRecent(c, n) == [i \in 1..n |-> gw.produced[c] - n + i]

\* C20 (as claimed): a frame queue never holds more than 5 messages, and
\* once 6 or more frames were enqueued and none consumed it holds exactly
\* the 5 most recent, oldest first.
C20_FiveMostRecentWithoutConsumption ==
    \A c \in StreamCameras :
        /\ Len(gw.frames[c]) <= 5
        /\ (gw.produced[c] >= 5 + 1 /\ gw.consumed[c] = 0) =>
              gw.frames[c] = MostRecent(c, 5)

\* C20 (amended): a frame queue never holds more than 5 messages; what it
\* holds is always the most recent frames, without gaps and oldest first;
\* and once 6 or more frames were enqueued, none consumed and none expired
\* under the queue's message TTL, it holds exactly the 5 most recent.
C20_FiveMostRecentWithoutConsumptionOrExpiry ==
    \A c \in StreamCameras :
        /\ Len(gw.frames[c]) <= 5
        /\ gw.frames[c] = MostRecent(c, Len(gw.frames[c]))
        /\ (gw.produced[c] >= 5 + 1 /\ gw.consumed[c] = 0 /\ gw.expired[c] = 0) =>
              gw.frames[c] = MostRecent(c, 5)

\* Seven frames were enqueued, none consumed or expired: frames 3..7 remain.
C20_Witness ==
    /\ gw.produced["cam1"] = 7
    /\ gw.consumed["cam1"] = 0
    /\ gw.expired["cam1"] = 0
    /\ gw.frames["cam1"] = <<3, 4, 5, 6, 7>>

(* --------------------------- frame stream ------------------------------ *)
\* Frame messages whose 'frame' member decodes to bytes that begin with the
\* start-of-image marker FF D8 and end with the end-of-image marker FF D9.
IsJpegKind(kind) == kind \in {"jpeg", "jpeg_min"}
JpegsOf(kinds) == SelectSeq(kinds, IsJpegKind)

C22_MalformedFramesSkippedNotFatal ==
    /\ gw.gen.pc = "failed" => gw.gen.pulled = <<>>
    /\ (gw.gen.stop = "none" /\ gw.gen.pc \notin {"idle", "failed"}) =>
          /\ gw.gen.sub
          /\ gw.gen.pc \in {"waiting", "processing", "yielded"}
          /\ gw.gen.rejected = <<>>
    /\ \A i \in 1..Len(gw.gen.done) :
          IsJpegKind(gw.gen.done[i]) =>
              Len(gw.gen.out) >= Len(JpegsOf(SubSeq(gw.gen.done, 1, i)))

\* Two malformed messages were consumed and the valid frame after them is
\* being yielded by the same call.
C22_Witness ==
    /\ gw.gen.done = <<"bad_json", "bad_base64", "jpeg">>
    /\ gw.gen.pc = "yielded"
    /\ gw.gen.out = <<FrameBytes("jpeg")>>
    /\ gw.gen.acked = <<"bad_json", "bad_base64">>

GatewayCall(op) == gw.call.op = op

\* C24: a stream-info request for a camera whose info queue holds no
\* metadata returns a StreamInfo with status inactive: get_stream_info does
\* not raise, and the caller is answered 200, not an error or not-found.
C24_NoMetadataIsInactiveNotError ==
    (GatewayCall("info") /\ gw.call.queued = 0) =>
        /\ gw.call.ret = "inactive"
        /\ ~gw.call.raised
        /\ gw.call.http = 200

C26_DeclaredOncePerCamera ==
    \A c \in StreamCameras :
        gw.declares[c].info <= 1 /\ gw.declares[c].stream <= 1

\* C27: check_camera_active returns True exactly when the camera's frame
\* queue holds a message at the time of the call and the broker refuses
\* nothing, and False otherwise; it never raises.
C27_ActiveIffFrameQueued ==
    GatewayCall("status") =>
        /\ ~gw.call.raised
        /\ gw.call.fault # "none" => gw.call.ret = "False"
        /\ gw.call.fault = "none" =>
              (gw.call.ret = "True" <=> gw.call.queued > 0)

(* ------------------------ telemetry topology --------------------------- *)
\* C28: after a completed setup_queues there are exactly one topic exchange
\* and four durable queues, and each queue is bound to the exchange with a
\* pattern that no other queue is bound with.
C28_OneExchangeFourQueues ==
    \A sd \in Sides :
        LET t == exch.topo[sd] IN
        t.completed =>
            /\ Cardinality(t.exchanges) = 1
            /\ \A x \in t.exchanges : x.type = "topic"
            /\ Cardinality(t.queues) = 4
            /\ \A q \in t.queues : q.durable
            /\ \A q \in t.queues : \E b \in t.bindings : b.queue = q.name
            /\ \A a, b \in t.bindings :
                  a.queue # b.queue => a.pattern # b.pattern

\* C29: a telemetry message published with routing key camera.<type>.X
\* after a completed setup reaches the queue of its type and no other
\* queue, and no queue other than the queues of the three types exists.
C29_RoutedToTheQueueOfItsType ==
    (exch.route.op = "route" /\ exch.route.completed) =>
        /\ exch.route.to = {TypeQueue(exch.route.side, exch.route.type)}
        /\ exch.route.queues =
              {TypeQueue(exch.route.side, ty) : ty \in TelemetryTypes}

(* ------------------------------ shutdown ------------------------------- *)
\* C30: a message in flight when the consumer task is cancelled is neither
\* acknowledged nor dropped: it returns to its queue for the next consumer.
C30_InFlightRequeuedAtShutdown ==
    \A i \in 1..Len(msgs) :
        msgs[i].atCancel # "none" =>
            /\ msgs[i].atCancel = "requeued"
            /\ msgs[i].acks = 0
            /\ msgs[i].rejects = 0

RECURSIVE IsSubsequence(_, _)
IsSubsequence(a, b) ==
    IF a = <<>> THEN TRUE
    ELSE IF b = <<>> THEN FALSE
    ELSE IF Head(a) = Head(b) THEN IsSubsequence(Tail(a), Tail(b))
    ELSE IsSubsequence(a, Tail(b))

C33_TrueOnlyIfPublished ==
    PublishCall =>
        /\ ~last.raised
        /\ last.ret \in {"True", "False"}
        /\ last.ret = "True" =>
              /\ Count(last.trace, {"publish_ok"}) = 1
              /\ Count(last.trace, {"publish_fail"}) = 0
              /\ mgr.is_connected
              /\ mgr.exchange # NoConn
        /\ Count(last.trace, {"publish_ok"}) = 0 => last.ret = "False"
        /\ Count(last.trace, {"publish_fail"}) = 1 => ~mgr.is_connected
        /\ ~mgr.is_connected => last.ret = "False"
        /\ ~last.entryConnected => last.trace[1] = "reconnect"

\* publish_message found the manager connected, its publish raised: it
\* returned False and left the manager marked disconnected.
C33_Witness ==
    /\ PublishCall
    /\ last.entryConnected
    /\ last.trace = <<"publish_fail">>
    /\ last.ret = "False"
    /\ ~mgr.is_connected

(* --------------------------- metadata fetch ---------------------------- *)
\* C34: a get_stream_info call that finds one metadata message in the info
\* queue takes it and returns status active, leaving the queue empty; the
\* get_stream_info call for the same camera that follows it directly, with
\* nothing published in between, finds the queue empty and returns status
\* inactive.  No call takes more than one message.
C34_MetadataConsumedOnce ==
    GatewayCall("info") =>
        /\ gw.call.queued - gw.call.left \in {0, 1}
        /\ (gw.call.queued = 1 /\ gw.call.fault = "none") =>
              (gw.call.ret = "active" /\ gw.call.left = 0)
        /\ (/\ gw.call.before.op = "info"
            /\ gw.call.before.camera = gw.call.camera
            /\ gw.call.before.ret = "active"
            /\ gw.call.queued = 0
            /\ gw.call.fault = "none") => gw.call.ret = "inactive"

(* ------------------------- manager invariants -------------------------- *)
\* C35: whenever the manager's is_connected flag is set, its connection,
\* channel and exchange are all set, and they are the handles of one
\* connection; this holds after every call, also one that failed part-way.
C35_ConnectedImpliesHandlesSet ==
    mgr.is_connected =>
        /\ mgr.connection # NoConn
        /\ mgr.channel # NoConn
        /\ mgr.exchange # NoConn
        /\ mgr.channel = mgr.connection
        /\ mgr.exchange = mgr.connection

\* The manager is connected after a call whose reconnect succeeded, earlier
\* reconnect attempts having failed.
C35_Witness ==
    /\ mgr.is_connected
    /\ last.op = "publish_message"
    /\ ~last.entryConnected
    /\ last.entryFailed >= 1
    /\ mgr.connection # NoConn
    /\ mgr.exchange = mgr.connection

(* -------------------------- shared connection -------------------------- *)
\* C36: whatever the interleaving of get_connection() calls, at most one
\* broker connection is open, every open connection is the one the manager
\* refers to, and the callers that hold an open connection hold the same
\* one.
C36_OneConnectionForAllCallers ==
    /\ Cardinality(broker.open) <= 1
    /\ \A c \in broker.open : c = conns["services_manager"]
    /\ \A j, k \in Callers :
          (/\ gw.getconn[j].pc = "returned" /\ gw.getconn[k].pc = "returned"
           /\ gw.getconn[j].got \in broker.open
           /\ gw.getconn[k].got \in broker.open) =>
              gw.getconn[j].got = gw.getconn[k].got

(* ------------------------ ROS2MessageConsumer -------------------------- *)
\* C37: whenever the ROS2 consumer's running flag is set, each of the three
\* core queues has a consumer attached; a start_consuming in which a
\* declaration or an attachment failed ends in an error and leaves the flag
\* clear.
C37_RunningImpliesThreeConsumers ==
    /\ exch.ros2.running => exch.ros2.attached = CoreQueues
    /\ (/\ last.op = "start_consuming"
        /\ \E i \in 1..Len(last.trace) : last.trace[i] = "consume_fail")
          => (last.raised /\ ~exch.ros2.running)

(* ------------------------- background workers -------------------------- *)
\* C38: the worker monitor stops only when it is cancelled itself, so that
\* a worker task that finished, however it finished, is replaced by a later
\* pass; and each slot of worker_tasks keeps the name of its first task.
C38_MonitorOutlivesItsWorkers ==
    /\ gw.workers.monitor = "stopped" => gw.workers.monitorCancelled
    /\ \A i \in WorkerSlots : gw.workers.slots[i].name = WorkerNames[i]

(* ----------------------- the attempt counter --------------------------- *)
\* The call's connect() succeeded: it ran and left the exchange handle of
\* the connection it made.
ConnectSucceeded ==
    /\ Count(last.trace, {"connect"}) = 1
    /\ mgr.connection # NoConn
    /\ mgr.exchange = mgr.connection

\* C39: the reconnect attempt counter is always in 0..5.  A call makes at
\* most one reconnect(); one that passes the ceiling test (it goes on to
\* tear down and wait) adds exactly one, one refused at the ceiling adds
\* nothing, and the counter is otherwise left alone, except that a connect()
\* that succeeded in the call puts it at zero.
C39_CounterStepsByOneWithinCeiling ==
    /\ mgr._reconnect_attempts \in 0..MaxReconnectAttempts
    /\ ManagerCall =>
          LET reconnects == Count(last.trace, {"reconnect"})
              passed == Count(last.trace, {"sleep"})
          IN /\ reconnects <= 1
             /\ passed = (IF reconnects = 1
                             /\ last.entryAttempts < MaxReconnectAttempts
                          THEN 1 ELSE 0)
             /\ mgr._reconnect_attempts \in {0, last.entryAttempts + passed}
             /\ mgr._reconnect_attempts # last.entryAttempts + passed =>
                   ConnectSucceeded
             /\ (reconnects = 1 /\ passed = 0) =>
                   mgr._reconnect_attempts = last.entryAttempts

\* A consume_queue() call reconnected for the fifth time in vain: the
\* counter went from 4 to 5.
C39_Witness ==
    /\ last.op = "consume_queue"
    /\ last.entryAttempts = MaxReconnectAttempts - 1
    /\ Count(last.trace, {"sleep"}) = 1
    /\ mgr._reconnect_attempts = MaxReconnectAttempts

(* ------------------------ the declared-queue cache --------------------- *)
\* C40: a camera id is in _declared_queues only if both of its queues were
\* declared by a call that returned normally; a call in which a declare
\* raised leaves the id out, also when the info queue was already declared
\* by it, and the next call for that id issues the declares again and
\* records the id when they both succeed.
C40_RecordedOnlyAfterBothDeclares ==
    /\ \A c \in StreamCameras :
          c \in gw.svc =>
              /\ gw.declares[c].info >= 1
              /\ gw.declares[c].stream >= 1
              /\ \E i \in 1..Len(gw.hist[c]) : gw.hist[c][i] = "ok"
    /\ GatewayCall("ensure") =>
          LET c == gw.call.camera
              h == gw.hist[c]
              n == gw.call.nth IN
          /\ gw.call.raised => c \notin gw.svc
          /\ (gw.call.raised /\ gw.call.fault = "declare_stream") =>
                gw.declares[c].info > gw.declares[c].stream
          /\ (n >= 2 /\ h[n - 1] = "raised" /\ ~gw.call.raised) =>
                (gw.call.calls = {"info", "stream"} /\ c \in gw.svc)

\* The frame-queue declare of the first call raised; the second call
\* declared both queues again and recorded the id.
C40_Witness ==
    /\ GatewayCall("ensure")
    /\ gw.call.nth = 2
    /\ gw.hist[gw.call.camera] = <<"raised", "ok">>
    /\ gw.declares[gw.call.camera] = [info |-> 2, stream |-> 1]
    /\ gw.call.camera \in gw.svc
====
